---- MODULE Spec2Model ----
(***************************************************************************)
(* State-machine model of AudioService (src/src/services/audioService.ts): *)
(* the reorder queue, the sequential playback pass (playSequentialQueue),  *)
(* the session lifecycle in playAudioResponse, interrupt / reset, the      *)
(* stuck-audio check and the host side of the Web Audio sources.           *)
(*                                                                         *)
(* JavaScript is single threaded: every handler below runs to completion.  *)
(* An async function is cut at the awaits that wait for the host (decode,  *)
(* end of output, timers).  A continuation that is only a microtask away   *)
(* is kept in the pass positions "micro" and "loop"; while a pass is in    *)
(* one of them nothing else may run (Quiet).                               *)
(***************************************************************************)
EXTENDS Integers, Sequences, FiniteSets, TLC

\* ---------------------------------------------------------------- bounds
MaxSubmits == 2          \* calls of playAudioResponse in one behaviour of Spec
MaxIndex   == 2          \* fragment indices are 0..MaxIndex; a whole response has MaxIndex + 1 fragments
BurstSize  == 55         \* fragments of the burst of SpecQueue
MaxUnits   == 6          \* the clock runs for at most MaxUnits * TimeUnit ms
MaxSessionSubmits == 2   \* fragments submitted in SpecSession
MaxOverlapSubmits == 3   \* fragments submitted in SpecOverlap
MaxProgressSubmits == 1  \* fragments submitted in SpecProgress
MaxShortSubmits == 2     \* fragments submitted in SpecShort
MaxReconnections == 2    \* recoveries of the session-health interval
MaxTurnSubmits == 2      \* fragments submitted in SpecReset
MaxPayloadSubmits == 2   \* fragments submitted in SpecPayload
MaxRetrySubmits == 3     \* fragments submitted in SpecRetry
MaxReadySubmits == 3     \* fragments submitted in SpecReady
MaxRenderSubmits == 1    \* fragments submitted in SpecRender
MaxHandleSubmits == 5    \* fragments submitted in SpecHandles
MaxManagedSubmits == 1   \* fragments submitted in SpecManager
MaxWaits   == 2          \* the clock of SpecManager runs for at most MaxWaits * interruptionCooldown ms
MaxBufferLen == 13       \* buffers handed to detectAudioFormat in SpecFormat have 0..MaxBufferLen bytes
MaxTotalChunks == 12     \* totalChunks is 0..MaxTotalChunks in SpecAdaptive
MaxSizeSteps == 8        \* chunkSizeMs is up to MaxSizeSteps * SizeStep ms in SpecAdaptive
SizeStep   == 500        \* step of chunkSizeMs in SpecAdaptive, in ms
SessionTotal == 2        \* fragments of a response in SpecSession
TimeUnit   == 2600       \* resolution of the clock, in ms
T0         == 10000000   \* Date.now() at construction (epoch time: far above every threshold)

\* ------------------------------------------------------ program constants
maxQueueSize       == 50      \* config.maxQueueSize
maxRetries         == 3       \* config.maxRetries
chunkDelay         == 10      \* config.chunkDelay
sessionTimeout     == 10000   \* config.sessionTimeout
chunkTimeout       == 5000    \* config.chunkTimeout
overlapWindow      == 2000    \* playAudioResponse: timeSinceLastChunk > 2000
stuckCheckCooldown == 10000   \* checkForStuckAudio: timeSinceLastCheck < 10000
waitTooLong        == 500     \* checkAndPlayConsecutiveChunks: waitTime > 500
recentWindow       == 100     \* checkAndPlayConsecutiveChunks: timeSinceLastChunk < 100
minAdaptiveTimeout == 3000    \* playAudioResponse: Math.max(3000, ...)
forcedStopExtra    == 5000    \* createAudioSourceAndPlayInternal: duration*1000 + 5000
retryBackoff       == 200     \* playSequentialQueue: 200 * (retryCount + 1)
tooManySources     == 3       \* playAudioChunk: activeSources > 3
minDataLength      == 10      \* playAudioResponse / validateAudioData: length < 10
loopGuard          == 100     \* playAudioResponse: total > 100 && index > 100
backendSessionTimeout == 600000  \* config.backendSessionTimeout
healthInterval     == 30000   \* startSessionMonitoring: setInterval(checkSessionHealth, 30000)
interruptionCooldown == 2000  \* InterruptionManager: config.interruptionCooldown
visualFeedbackDuration == 1500 \* InterruptionManager: config.visualFeedbackDuration
\* rates in millionths, delays in hundredths of a millisecond
defaultPlaybackRate == 500000 \* config.defaultPlaybackRate: 0.5
largeChunkThreshold == 2000   \* config.largeChunkThreshold
wavRate            == 550000  \* calculateAdaptivePlaybackRate: case 'wav', 0.55
mp3Rate            == 500000  \* calculateAdaptivePlaybackRate: case 'mp3', 0.5
oggRate            == 600000  \* calculateAdaptivePlaybackRate: case 'ogg', 0.6
naturalRate        == 500000  \* calculateAdaptivePlaybackRate: default, 0.5
performanceCap     == 700000  \* calculateAdaptivePlaybackRate: Math.min(0.7, ...)
shortResponse      == 3       \* calculateAdaptivePlaybackParams: totalChunks <= 3
longResponse       == 10      \* calculateAdaptivePlaybackParams: totalChunks > 10
largeRateCap       == 650000  \* calculateAdaptivePlaybackParams: Math.min(0.65, ...)
largeDelayMin      == 200     \* calculateAdaptivePlaybackParams: Math.max(2, ...)
shortRateCap       == 700000  \* calculateAdaptivePlaybackParams: Math.min(0.7, ...)
shortDelayMin      == 100     \* calculateAdaptivePlaybackParams: Math.max(1, ...)
longRateFloor      == 400000  \* calculateAdaptivePlaybackParams: Math.max(0.4, ...)
longDelayMax       == 1000    \* calculateAdaptivePlaybackParams: Math.min(10, ...)
adaptivePlayback   == TRUE    \* config.adaptivePlayback
performanceMode    == TRUE    \* config.performanceMode
adaptiveChunkMode  == TRUE    \* config.adaptiveChunkMode

\* ------------------------------------------------------------ input sets
Null       == "null"                    \* no session id (null / undefined)
NoTime     == 0                         \* an unset time or timer (0 / null: both falsy)
NoSource   == 0                         \* no source handle
SessionIds == {"s1", "s2"}
DefaultKey == "default"                 \* sessionId || 'default'
SessionKeys == SessionIds \cup {DefaultKey}
Indices    == 0..MaxIndex
Totals     == {1, MaxIndex + 1}
\* what the payload of a fragment is:
\*   "wav"     valid base64 of a RIFF/WAVE container: decoded by the host, asynchronously
\*   "pcm"     valid base64 of no known container: decodeRawPCM, no host wait
\*   "invalid" at least 10 characters that are not base64: validateAudioData refuses it
\*   "broken"  a fragment on which every attempt of playAudioChunk rejects (the host
\*             throws inside its try block)
\*   "empty"   fewer than 10 characters
DataKinds  == {"wav", "pcm", "invalid", "broken", "empty"}
\* payloads detected as WAV whose decoding goes another way:
\*   "corrupt"     the host decoder rejects it and decodeRawPCM yields a buffer
\*   "undecodable" the host decoder rejects it and decodeRawPCM yields no buffer
\*   "overlong"    the host decodes it to a buffer of more than 10 s
\*   "blank"       the host decodes it to a buffer of less than 1 ms
DecodeKinds == {"corrupt", "undecodable", "overlong", "blank"}
DurationMs == 1000                      \* decoded duration of a valid fragment

NoChunk == [uid |-> 0, sessionId |-> Null, index |-> 0, total |-> 0, kind |-> "empty", retryCount |-> 0]

VARIABLES
  now,                    \* Date.now()
  isInitialized,          \* isInitialized (audioContext exists)
  audioQueue,             \* audioQueue
  isPlayingSequentially,  \* isPlayingSequentially
  currentSessionId,       \* currentSessionId
  sessionAudioSources,    \* sessionAudioSources: key -> tracked source handles
  currentAudioSource,     \* currentAudioSource
  sessionChunksSeen,      \* sessionChunksSeen
  lastChunkTime,          \* lastChunkTime
  sessionStartTime,       \* sessionStartTime
  consecutiveChunkCount,  \* consecutiveChunkCount
  lastStuckAudioCheck,    \* lastStuckAudioCheck
  queueStartTime,         \* queueStartTime (NoTime or a time)
  lastActivity,           \* sessionState.lastActivity
  playbackTimeoutId,      \* playbackTimeoutId: deadline of the pending timer or NoTime
  forceTimers,            \* deadlines of the pending 'force playback' timers of playAudioResponse
  cleanupTimers,          \* deadlines of the pending cleanup timers of setupPlaybackTimeout
  passes,                 \* in-flight executions of playSequentialQueue
  sources,                \* host side of the created AudioBufferSourceNodes
  performanceMetrics,     \* performanceMetrics: the counters kept across turns
  nSubmits,               \* number of playAudioResponse calls so far
  interruptionState,      \* InterruptionManager: state
  feedbackTimers,         \* InterruptionManager: deadlines of the pending visual-feedback timers
  hist                    \* history: what was submitted / rendered, for the properties

vars == <<now, isInitialized, audioQueue, isPlayingSequentially, currentSessionId,
          sessionAudioSources, currentAudioSource, sessionChunksSeen, lastChunkTime,
          sessionStartTime, consecutiveChunkCount, lastStuckAudioCheck, queueStartTime,
          lastActivity, playbackTimeoutId, forceTimers, cleanupTimers, passes, sources,
          performanceMetrics, nSubmits, interruptionState, feedbackTimers, hist>>

\* The whole state as one record, so that a method is a function from state to state.
World ==
  [now |-> now, isInitialized |-> isInitialized, audioQueue |-> audioQueue,
   isPlayingSequentially |-> isPlayingSequentially, currentSessionId |-> currentSessionId,
   sessionAudioSources |-> sessionAudioSources, currentAudioSource |-> currentAudioSource,
   sessionChunksSeen |-> sessionChunksSeen, lastChunkTime |-> lastChunkTime,
   sessionStartTime |-> sessionStartTime, consecutiveChunkCount |-> consecutiveChunkCount,
   lastStuckAudioCheck |-> lastStuckAudioCheck, queueStartTime |-> queueStartTime,
   lastActivity |-> lastActivity, playbackTimeoutId |-> playbackTimeoutId,
   forceTimers |-> forceTimers, cleanupTimers |-> cleanupTimers, passes |-> passes,
   sources |-> sources, performanceMetrics |-> performanceMetrics,
   nSubmits |-> nSubmits, interruptionState |-> interruptionState,
   feedbackTimers |-> feedbackTimers, hist |-> hist]

Becomes(w) ==
  \E v \in {w} :
    /\ now' = v.now
    /\ isInitialized' = v.isInitialized
    /\ audioQueue' = v.audioQueue
    /\ isPlayingSequentially' = v.isPlayingSequentially
    /\ currentSessionId' = v.currentSessionId
    /\ sessionAudioSources' = v.sessionAudioSources
    /\ currentAudioSource' = v.currentAudioSource
    /\ sessionChunksSeen' = v.sessionChunksSeen
    /\ lastChunkTime' = v.lastChunkTime
    /\ sessionStartTime' = v.sessionStartTime
    /\ consecutiveChunkCount' = v.consecutiveChunkCount
    /\ lastStuckAudioCheck' = v.lastStuckAudioCheck
    /\ queueStartTime' = v.queueStartTime
    /\ lastActivity' = v.lastActivity
    /\ playbackTimeoutId' = v.playbackTimeoutId
    /\ forceTimers' = v.forceTimers
    /\ cleanupTimers' = v.cleanupTimers
    /\ passes' = v.passes
    /\ sources' = v.sources
    /\ performanceMetrics' = v.performanceMetrics
    /\ nSubmits' = v.nSubmits
    /\ interruptionState' = v.interruptionState
    /\ feedbackTimers' = v.feedbackTimers
    /\ hist' = v.hist

\* history, read only by the properties:
\*   arrived      sessionId, index, payload kind and time of every playAudioResponse call,
\*                in order
\*   rendered     the fragments handed to createAudioSourceAndPlayInternal, in order, each
\*                with what had been given up (dropped) and whether interrupt() had
\*                returned since its submit (stale) when its source was created
\*   nosource     uids of the fragments whose playAudioChunk resolved without a source
\*   dropped      uids of the fragments given up after maxRetries retries
\*   retrying     for every fragment re-inserted for a retry, its uid with the number
\*                of fragments rendered before its latest failed attempt
\*   fallbacks    uids of the fragments decodeRawPCM was called for after the host
\*                decoder had failed, one entry per call, in order
\*   gapDelay     the gapDelay (ms) a pass waits since the latest render it awaited
\*                has completed
\*   detected     a buffer handed to detectAudioFormat and, once the call is done, the
\*                format it chose, the baseRate of calculateAdaptivePlaybackRate for it
\*                and the playbackRate returned
\*   adaptive     arguments handed to calculateAdaptivePlaybackParams and, once the call
\*                is done, the playbackRate and delay returned
\*   stale        uids of the fragments submitted before the latest interrupt()
\*   cut          uids of the sources that were tracked when interrupt() was last called
\*   taskSince    a task other than a submit has run since the latest submit
\*   apart        some submit came after a task that followed an earlier submit: the
\*                submits so far were not one burst
EmptyHist == [arrived |-> <<>>, rendered |-> <<>>, nosource |-> {}, dropped |-> {},
              retrying |-> {}, fallbacks |-> <<>>, gapDelay |-> 0,
              detected |-> [bytes |-> <<>>, done |-> FALSE, format |-> "unknown",
                            baseRate |-> 0, playbackRate |-> 0],
              adaptive |-> [chunkSizeMs |-> 0, totalChunks |-> 0, done |-> FALSE,
                            playbackRate |-> 0, delay |-> 0],
              stale |-> {}, cut |-> {}, taskSince |-> FALSE, apart |-> FALSE]

\* the engine after construction
InitEngine ==
  /\ now = T0
  /\ isInitialized = FALSE
  /\ audioQueue = <<>>
  /\ isPlayingSequentially = FALSE
  /\ currentSessionId = Null
  /\ sessionAudioSources = [k \in SessionKeys |-> {}]
  /\ currentAudioSource = NoSource
  /\ sessionChunksSeen = {}
  /\ lastChunkTime = 0
  /\ sessionStartTime = 0
  /\ consecutiveChunkCount = 0
  /\ lastStuckAudioCheck = 0
  /\ queueStartTime = NoTime
  /\ lastActivity = 0
  /\ playbackTimeoutId = NoTime
  /\ forceTimers = {}
  /\ cleanupTimers = {}
  /\ passes = <<>>
  /\ sources = {}
  /\ performanceMetrics = [totalChunksProcessed |-> 0, successfulDecodes |-> 0,
                           failedDecodes |-> 0, turnCount |-> 0,
                           reconnectionCount |-> 0]
  /\ nSubmits = 0
  /\ interruptionState = [isAISpeaking |-> FALSE, isUserInterrupting |-> FALSE,
                          lastInterruptionTime |-> 0, interruptionCount |-> 0,
                          isInterruptionEnabled |-> TRUE]
  /\ feedbackTimers = {}

Init == InitEngine /\ hist = EmptyHist

\* ---------------------------------------------------------------- helpers
Max2(a, b) == IF a >= b THEN a ELSE b

RECURSIVE InsertByIndex(_, _)
\* position of c in a sequence already sorted by index, after every entry whose index is <= c.index
InsertByIndex(q, c) ==
  IF q = <<>> THEN <<c>>
  ELSE IF q[Len(q)].index <= c.index THEN Append(q, c)
       ELSE Append(InsertByIndex(SubSeq(q, 1, Len(q) - 1), c), q[Len(q)])

RECURSIVE SortByIndex(_)
\* Array.prototype.sort((a, b) => a.index - b.index): a stable sort by index
SortByIndex(q) ==
  IF q = <<>> THEN <<>>
  ELSE InsertByIndex(SortByIndex(SubSeq(q, 1, Len(q) - 1)), q[Len(q)])

RemoveAt(q, p) == SubSeq(q, 1, p - 1) \o SubSeq(q, p + 1, Len(q))

\* getTotalActiveSources()
getTotalActiveSources(w) ==
  Cardinality(UNION {w.sessionAudioSources[k] : k \in SessionKeys})

\* source.stop() on each handle of the set hs: a playing source is stopped and the host
\* owes it an 'ended' event; stopping a source that no longer plays has no effect
StopSources(srcs, hs) ==
  {IF s.uid \in hs /\ s.st = "playing" THEN [s EXCEPT !.st = "stopped"] ELSE s : s \in srcs}

\* ---------------------------------------------------------------- methods
\* faulty variant of stopCurrentAudio(): the sources are stopped but stay tracked
stopCurrentAudioKeepsTracked(w) ==
  LET tracked == UNION {w.sessionAudioSources[k] : k \in SessionKeys}
      cur     == IF w.currentAudioSource = NoSource THEN {} ELSE {w.currentAudioSource}
  IN [w EXCEPT !.currentAudioSource = NoSource,
               !.sources = StopSources(w.sources, tracked \cup cur)]

\* stopCurrentAudio()
stopCurrentAudio(w) ==
  LET tracked == UNION {w.sessionAudioSources[k] : k \in SessionKeys}
      cur     == IF w.currentAudioSource = NoSource THEN {} ELSE {w.currentAudioSource}
  IN [w EXCEPT !.currentAudioSource = NoSource,
               !.sessionAudioSources = [k \in SessionKeys |-> {}],
               !.sources = StopSources(w.sources, tracked \cup cur)]

forceClearAllAudio(w) ==
  LET tracked == UNION {w.sessionAudioSources[k] : k \in SessionKeys}
  IN [w EXCEPT !.currentAudioSource = NoSource,
               !.sessionAudioSources = [k \in SessionKeys |-> {}],
               !.sources = StopSources(w.sources, tracked)]

\* getQueueWaitTime(): sets queueStartTime when it is unset
getQueueWaitTime(w) ==
  IF w.queueStartTime = NoTime THEN [w EXCEPT !.queueStartTime = w.now] ELSE w

\* faulty variant of cleanupSession(): sessionChunksSeen is not cleared
cleanupSessionKeepsSeen(w) ==
  LET w1 == [w EXCEPT !.consecutiveChunkCount = 0,
                      !.lastChunkTime = 0,
                      !.lastStuckAudioCheck = 0,
                      !.sessionStartTime = w.now]
      w2 == getQueueWaitTime(w1)
      queueAge == w2.now - w2.queueStartTime
      w3 == IF queueAge > sessionTimeout
            THEN [w2 EXCEPT !.audioQueue = <<>>, !.queueStartTime = NoTime]
            ELSE w2
  IN [w3 EXCEPT !.isPlayingSequentially = FALSE, !.playbackTimeoutId = NoTime]

\* cleanupSession()
cleanupSession(w) ==
  LET w1 == [w EXCEPT !.sessionChunksSeen = {},
                      !.consecutiveChunkCount = 0,
                      !.lastChunkTime = 0,
                      !.lastStuckAudioCheck = 0,
                      !.sessionStartTime = w.now]
      w2 == getQueueWaitTime(w1)
      queueAge == w2.now - w2.queueStartTime
      w3 == IF queueAge > sessionTimeout
            THEN [w2 EXCEPT !.audioQueue = <<>>, !.queueStartTime = NoTime]
            ELSE w2
  IN [w3 EXCEPT !.isPlayingSequentially = FALSE, !.playbackTimeoutId = NoTime]

\* faulty variant of checkForStuckAudio(): the check is stamped but nothing is stopped
checkForStuckAudioOnlyStamps(w) ==
  IF w.now - w.lastStuckAudioCheck < stuckCheckCooldown THEN w
  ELSE [w EXCEPT !.lastStuckAudioCheck = w.now]

\* checkForStuckAudio()
checkForStuckAudio(w) ==
  IF w.now - w.lastStuckAudioCheck < stuckCheckCooldown THEN w
  ELSE LET hasStuckAudio == /\ getTotalActiveSources(w) > 0
                            /\ w.now - w.lastChunkTime > chunkTimeout * 3
           w1 == IF hasStuckAudio THEN forceClearAllAudio(w) ELSE w
       IN [w1 EXCEPT !.lastStuckAudioCheck = w.now]

\* faulty variant of interrupt(): the queue is not cleared
interruptKeepsQueue(w) ==
  LET w1 == stopCurrentAudio(w)
  IN [w1 EXCEPT !.isPlayingSequentially = FALSE,
                !.playbackTimeoutId = NoTime,
                !.sessionStartTime = 0,
                !.consecutiveChunkCount = 0,
                !.lastChunkTime = 0]

\* interrupt()
interrupt(w) ==
  LET w1 == stopCurrentAudio(w)
  IN [w1 EXCEPT !.audioQueue = <<>>,
                !.isPlayingSequentially = FALSE,
                !.playbackTimeoutId = NoTime,
                !.sessionStartTime = 0,
                !.consecutiveChunkCount = 0,
                !.lastChunkTime = 0]

\* variant of handleSessionError that stops the sources and leaves the session state
handleSessionErrorOnlyStops(w) ==
  LET w1 == forceClearAllAudio(w)
  IN [w1 EXCEPT !.performanceMetrics.reconnectionCount = @ + 1]

\* handleSessionError(message)
handleSessionError(w) ==
  LET w1 == cleanupSession(forceClearAllAudio(w))
  IN [w1 EXCEPT !.performanceMetrics.reconnectionCount = @ + 1]

\* faulty variant of checkSessionHealth(): the status is recorded and nothing is recovered
checkSessionHealthOnlyReports(w) == w

\* checkSessionHealth()
checkSessionHealth(w) ==
  LET timeSinceLastActivity == w.now - w.lastActivity
  IN IF timeSinceLastActivity > backendSessionTimeout \/ getTotalActiveSources(w) > 1
     THEN handleSessionError(w) ELSE w

\* faulty variant of resetForContinuousConversation(): the current audio is stopped first
resetForContinuousConversationStops(w) ==
  [stopCurrentAudio(w) EXCEPT !.sessionChunksSeen = {},
                              !.sessionStartTime = 0,
                              !.currentSessionId = Null,
                              !.audioQueue = <<>>,
                              !.isPlayingSequentially = FALSE,
                              !.playbackTimeoutId = NoTime]

\* resetForContinuousConversation()
resetForContinuousConversation(w) ==
  [w EXCEPT !.sessionChunksSeen = {},
            !.sessionStartTime = 0,
            !.currentSessionId = Null,
            !.audioQueue = <<>>,
            !.isPlayingSequentially = FALSE,
            !.playbackTimeoutId = NoTime]

\* trackTurn(type, duration, chunkCount)
trackTurn(w) ==
  [w EXCEPT !.performanceMetrics.turnCount = @ + 1, !.lastActivity = w.now]

\* initializeSessionState(sessionId)
initializeSessionState(w) ==
  [w EXCEPT !.lastActivity = w.now, !.performanceMetrics.turnCount = 0]

\* updatePerformanceMetrics(processingTime, success)
updatePerformanceMetrics(w, success) ==
  [w EXCEPT !.performanceMetrics.totalChunksProcessed = @ + 1,
            !.performanceMetrics.successfulDecodes = IF success THEN @ + 1 ELSE @,
            !.performanceMetrics.failedDecodes = IF success THEN @ ELSE @ + 1]

\* ------------------------------------------------- reorder buffer
RECURSIVE ScanRun(_, _, _, _, _)
\* the for-loop of checkAndPlayConsecutiveChunks over the sorted chunks, from position i
ScanRun(q, i, consecutiveCount, expectedIndex, maxGap) ==
  IF i > Len(q) THEN [consecutiveCount |-> consecutiveCount, maxGap |-> maxGap]
  ELSE IF q[i].index = expectedIndex
       THEN ScanRun(q, i + 1, consecutiveCount + 1, expectedIndex + 1, maxGap)
       ELSE IF q[i].index > expectedIndex
            THEN ScanRun(q, i + 1, 1, q[i].index + 1, Max2(maxGap, q[i].index - expectedIndex))
            ELSE ScanRun(q, i + 1, consecutiveCount, expectedIndex, maxGap)

\* faulty variant of shouldStartPlayback: the rule for a consecutive run is missing
shouldStartPlaybackNoRunRule(w, waitTime) ==
  LET sortedChunks == SortByIndex(w.audioQueue)
      run == ScanRun(sortedChunks, 1, 0, sortedChunks[1].index, 0)
      timeSinceLastChunk == w.now - w.lastChunkTime
      totalChunksExpected == IF sortedChunks[1].total = 0 THEN 1 ELSE sortedChunks[1].total
      hasEnoughConsecutive == run.consecutiveCount >= 2
      hasReasonableGap == run.maxGap <= 1
      hasBeenWaitingTooLong == waitTime > waitTooLong
      hasEnoughTotalChunks == Len(w.audioQueue) >= 2
      hasManyChunks == Len(w.audioQueue) >= 3
      hasRecentChunks == timeSinceLastChunk < recentWindow
      hasConsecutiveChunks == w.consecutiveChunkCount >= 2
      hasAllChunksForShortResponse ==
        Len(w.audioQueue) = totalChunksExpected /\ totalChunksExpected <= 3
  IN \/ (hasBeenWaitingTooLong /\ hasEnoughTotalChunks)
     \/ hasManyChunks
     \/ (hasRecentChunks /\ hasConsecutiveChunks)
     \/ hasAllChunksForShortResponse

\* shouldStartPlayback of checkAndPlayConsecutiveChunks, for a non-empty queue;
\* waitTime is the value getQueueWaitTime() returned
shouldStartPlayback(w, waitTime) ==
  LET sortedChunks == SortByIndex(w.audioQueue)
      run == ScanRun(sortedChunks, 1, 0, sortedChunks[1].index, 0)
      timeSinceLastChunk == w.now - w.lastChunkTime
      totalChunksExpected == IF sortedChunks[1].total = 0 THEN 1 ELSE sortedChunks[1].total
      hasEnoughConsecutive == run.consecutiveCount >= 2
      hasReasonableGap == run.maxGap <= 1
      hasBeenWaitingTooLong == waitTime > waitTooLong
      hasEnoughTotalChunks == Len(w.audioQueue) >= 2
      hasManyChunks == Len(w.audioQueue) >= 3
      hasRecentChunks == timeSinceLastChunk < recentWindow
      hasConsecutiveChunks == w.consecutiveChunkCount >= 2
      hasAllChunksForShortResponse ==
        Len(w.audioQueue) = totalChunksExpected /\ totalChunksExpected <= 3
  IN \/ (hasEnoughConsecutive /\ hasReasonableGap)
     \/ (hasBeenWaitingTooLong /\ hasEnoughTotalChunks)
     \/ hasManyChunks
     \/ (hasRecentChunks /\ hasConsecutiveChunks)
     \/ hasAllChunksForShortResponse

\* one turn of the while loop of playSequentialQueue for the pass at position p, up to
\* the first await of playAudioChunk (or the exit of the loop)
LoopHead(w, p) ==
  IF w.audioQueue = <<>>
  THEN [w EXCEPT !.isPlayingSequentially = FALSE,
                 !.playbackTimeoutId = NoTime,
                 !.passes = RemoveAt(w.passes, p)]
  ELSE LET chunk == Head(w.audioQueue)
           w1 == [w EXCEPT !.audioQueue = Tail(w.audioQueue), !.lastChunkTime = w.now]
       IN IF getTotalActiveSources(w1) > tooManySources
          THEN [w1 EXCEPT !.passes[p] = [pc |-> "gap", chunk |-> NoChunk],
                          !.hist.nosource = w.hist.nosource \cup {chunk.uid}]
          ELSE [w1 EXCEPT !.passes[p] = [pc |-> "micro", chunk |-> chunk]]

\* playSequentialQueue(), up to its first await
playSequentialQueue(w) ==
  IF w.isPlayingSequentially \/ w.audioQueue = <<>> THEN w
  ELSE LET w1 == [w EXCEPT !.isPlayingSequentially = TRUE,
                           !.queueStartTime = NoTime,
                           !.passes = Append(w.passes, [pc |-> "loop", chunk |-> NoChunk])]
       IN LoopHead(w1, Len(w1.passes))

checkAndPlayConsecutiveChunks(w) ==
  IF w.isPlayingSequentially \/ w.audioQueue = <<>> THEN w
  ELSE LET w1 == getQueueWaitTime(w)
           waitTime == w1.now - w1.queueStartTime
       IN IF shouldStartPlayback(w1, waitTime) THEN playSequentialQueue(w1) ELSE w1

\* faulty variant of queueAudioChunk: the overflow guard is missing
queueAudioChunkUnbounded(w, chunk) ==
  LET w1 == [w EXCEPT !.audioQueue = SortByIndex(Append(w.audioQueue, chunk)),
                      !.lastChunkTime = w.now,
                      !.consecutiveChunkCount = w.consecutiveChunkCount + 1]
  IN checkAndPlayConsecutiveChunks(w1)

\* faulty variant of queueAudioChunk: the overflow guard pops the last entry
queueAudioChunkPopsLast(w, chunk) ==
  LET q1 == IF Len(w.audioQueue) >= maxQueueSize
            THEN SubSeq(w.audioQueue, 1, Len(w.audioQueue) - 1) ELSE w.audioQueue
      w1 == [w EXCEPT !.audioQueue = SortByIndex(Append(q1, chunk)),
                      !.lastChunkTime = w.now,
                      !.consecutiveChunkCount = w.consecutiveChunkCount + 1]
  IN checkAndPlayConsecutiveChunks(w1)

\* faulty variant of queueAudioChunk: the queue is not sorted after the push
queueAudioChunkUnsorted(w, chunk) ==
  LET q1 == IF Len(w.audioQueue) >= maxQueueSize THEN Tail(w.audioQueue) ELSE w.audioQueue
      w1 == [w EXCEPT !.audioQueue = Append(q1, chunk),
                      !.lastChunkTime = w.now,
                      !.consecutiveChunkCount = w.consecutiveChunkCount + 1]
  IN checkAndPlayConsecutiveChunks(w1)

\* queueAudioChunk(audioData, sessionId, index, total)
queueAudioChunk(w, chunk) ==
  LET q1 == IF Len(w.audioQueue) >= maxQueueSize THEN Tail(w.audioQueue) ELSE w.audioQueue
      w1 == [w EXCEPT !.audioQueue = SortByIndex(Append(q1, chunk)),
                      !.lastChunkTime = w.now,
                      !.consecutiveChunkCount = w.consecutiveChunkCount + 1]
  IN checkAndPlayConsecutiveChunks(w1)

\* ------------------------------------------------- format and adaptive parameters
\* playback rates are counted in millionths (0.55 is 550000), the delays of the
\* adaptive parameters in hundredths of a millisecond (10 ms is 1000)
DelayUnit == 100
Min2(a, b) == IF a <= b THEN a ELSE b

\* bytes[i] of a Uint8Array kept as a sequence: undefined past the end
Undefined == 0 - 1
ByteAt(bytes, i) == IF i < Len(bytes) THEN bytes[i + 1] ELSE Undefined
\* (b & 0xE0) === 0xE0; undefined & 0xE0 is 0
TopThreeBitsSet(b) == b # Undefined /\ b \div 32 = 7

RIFF == <<82, 73, 70, 70>>
WAVE == <<87, 65, 86, 69>>
OggS == <<79, 103, 103, 83>>

\* faulty variant of the format choice: the MPEG sync test asks for any of the top
\* three bits of byte 1, not for all of them
audioFormatLooseSync(bytes) ==
  LET isWav == /\ Len(bytes) >= 12
               /\ SubSeq(bytes, 1, 4) = RIFF
               /\ SubSeq(bytes, 9, 12) = WAVE
  IN IF isWav THEN "WAV"
     ELSE IF /\ ByteAt(bytes, 0) = OggS[1] /\ ByteAt(bytes, 1) = OggS[2]
             /\ ByteAt(bytes, 2) = OggS[3] /\ ByteAt(bytes, 3) = OggS[4]
          THEN "OGG_OPUS"
     ELSE IF ByteAt(bytes, 0) = 255 /\ ByteAt(bytes, 1) \div 32 > 0 THEN "MP3"
     ELSE "unknown"

\* the format label chosen by detectAudioFormat(bytes)
audioFormat(bytes) ==
  LET isWav == /\ Len(bytes) >= 12
               /\ SubSeq(bytes, 1, 4) = RIFF
               /\ SubSeq(bytes, 9, 12) = WAVE
  IN IF isWav THEN "WAV"
     ELSE IF /\ ByteAt(bytes, 0) = OggS[1] /\ ByteAt(bytes, 1) = OggS[2]
             /\ ByteAt(bytes, 2) = OggS[3] /\ ByteAt(bytes, 3) = OggS[4]
          THEN "OGG_OPUS"
     ELSE IF ByteAt(bytes, 0) = 255 /\ TopThreeBitsSet(ByteAt(bytes, 1)) THEN "MP3"
     ELSE "unknown"

\* format.toLowerCase() of the labels the detector can produce and of their short names
toLowerCase(format) ==
  CASE format = "WAV" -> "wav"
    [] format = "MP3" -> "mp3"
    [] format = "OGG" -> "ogg"
    [] format = "OGG_OPUS" -> "ogg_opus"
    [] OTHER -> format

\* the switch of calculateAdaptivePlaybackRate(format): baseRate before the
\* performance-mode adjustment
baseRate(format) ==
  CASE toLowerCase(format) = "wav" -> wavRate
    [] toLowerCase(format) = "mp3" -> mp3Rate
    [] toLowerCase(format) = "ogg" -> oggRate
    [] OTHER -> naturalRate

\* calculateAdaptivePlaybackRate(format)
calculateAdaptivePlaybackRate(format) ==
  IF performanceMode
  THEN Min2(performanceCap, (baseRate(format) * 105) \div 100)
  ELSE baseRate(format)

\* detectAudioFormat(bytes, chunkInfo, timestamp)
detectAudioFormat(bytes) ==
  [format |-> audioFormat(bytes),
   playbackRate |-> IF adaptivePlayback
                    THEN calculateAdaptivePlaybackRate(audioFormat(bytes))
                    ELSE defaultPlaybackRate]

\* the first 12 bytes of the decoded payload of a fragment of the given kind: a
\* RIFF/WAVE header, and for "pcm" samples that match no container
HeaderBytes(kind) ==
  IF kind = "pcm" THEN <<0, 0, 1, 0, 2, 0, 1, 0, 0, 0, 1, 0>>
  ELSE RIFF \o <<36, 8, 0, 0>> \o WAVE

\* faulty variant of calculateAdaptivePlaybackParams: the delay of a long response
\* is not capped
calculateAdaptivePlaybackParamsUncapped(chunkSizeMs, totalChunks) ==
  LET isLargeChunk == chunkSizeMs >= largeChunkThreshold
      isShortResponse == totalChunks <= shortResponse
      isLongResponse == totalChunks > longResponse
      r1 == IF isLargeChunk THEN Min2(largeRateCap, (defaultPlaybackRate * 110) \div 100)
            ELSE defaultPlaybackRate
      d1 == IF isLargeChunk THEN Max2(largeDelayMin, (chunkDelay * DelayUnit * 5) \div 10)
            ELSE chunkDelay * DelayUnit
      r2 == IF isShortResponse THEN Min2(shortRateCap, (r1 * 105) \div 100) ELSE r1
      d2 == IF isShortResponse THEN Max2(shortDelayMin, (d1 * 8) \div 10) ELSE d1
      r3 == IF isLongResponse THEN Max2(longRateFloor, (r2 * 95) \div 100) ELSE r2
      d3 == IF isLongResponse THEN (d2 * 12) \div 10 ELSE d2
  IN IF ~adaptiveChunkMode
     THEN [playbackRate |-> defaultPlaybackRate, delay |-> chunkDelay * DelayUnit]
     ELSE [playbackRate |-> r3, delay |-> d3]

\* calculateAdaptivePlaybackParams(chunkSizeMs, totalChunks): the playbackRate and
\* the delay of its result
calculateAdaptivePlaybackParams(chunkSizeMs, totalChunks) ==
  LET isLargeChunk == chunkSizeMs >= largeChunkThreshold
      isShortResponse == totalChunks <= shortResponse
      isLongResponse == totalChunks > longResponse
      r1 == IF isLargeChunk THEN Min2(largeRateCap, (defaultPlaybackRate * 110) \div 100)
            ELSE defaultPlaybackRate
      d1 == IF isLargeChunk THEN Max2(largeDelayMin, (chunkDelay * DelayUnit * 5) \div 10)
            ELSE chunkDelay * DelayUnit
      r2 == IF isShortResponse THEN Min2(shortRateCap, (r1 * 105) \div 100) ELSE r1
      d2 == IF isShortResponse THEN Max2(shortDelayMin, (d1 * 8) \div 10) ELSE d1
      r3 == IF isLongResponse THEN Max2(longRateFloor, (r2 * 95) \div 100) ELSE r2
      d3 == IF isLongResponse THEN Min2(longDelayMax, (d2 * 12) \div 10) ELSE d2
  IN IF ~adaptiveChunkMode
     THEN [playbackRate |-> defaultPlaybackRate, delay |-> chunkDelay * DelayUnit]
     ELSE [playbackRate |-> r3, delay |-> d3]

\* ------------------------------------------------- session lifecycle
\* audioData.length of a payload of the given kind
DataLength(kind) == IF kind = "empty" THEN 0 ELSE 1000

\* sessionId === this.currentSessionId (a missing session id is undefined, never === null)
SameSession(sessionId, current) == sessionId # Null /\ sessionId = current

\* the callback of the cleanup timer of setupPlaybackTimeout
inactivityCleanup(w) ==
  IF w.now - w.lastChunkTime > chunkTimeout /\ w.audioQueue = <<>>
  THEN [w EXCEPT !.sessionChunksSeen = {},
                 !.consecutiveChunkCount = 0,
                 !.lastChunkTime = 0]
  ELSE w

\* setupPlaybackTimeout(sessionId, total, timeoutOverride)
setupPlaybackTimeout(w, finalTimeout) ==
  [w EXCEPT !.playbackTimeoutId = w.now + finalTimeout,
            !.cleanupTimers = w.cleanupTimers \cup {w.now + chunkTimeout}]

\* faulty variant of the session handling of playAudioResponse: after the cleanup of a
\* new session, playback of what is still queued is restarted
sessionLifecycleReplays(w, index, sessionId) ==
  LET \* new session
      w1 == IF sessionId # Null /\ sessionId # w.currentSessionId
            THEN LET a == IF ~w.isPlayingSequentially /\ getTotalActiveSources(w) = 0
                          THEN stopCurrentAudio(w) ELSE w
                     b == [a EXCEPT !.currentSessionId = sessionId]
                     c == cleanupSession(b)
                 IN checkAndPlayConsecutiveChunks(initializeSessionState(c))
            ELSE w
      \* overlapping response in the same session
      w2 == IF SameSession(sessionId, w1.currentSessionId) /\ index = 0 /\ w1.sessionChunksSeen # {}
            THEN LET a == IF w1.now - w1.lastChunkTime > overlapWindow
                          THEN cleanupSession(stopCurrentAudio(w1)) ELSE w1
                 IN trackTurn(a)
            ELSE w1
      \* session timeout
      w3 == IF /\ w2.sessionStartTime > 0
               /\ w2.sessionChunksSeen # {}
               /\ w2.now - w2.sessionStartTime > sessionTimeout
            THEN cleanupSession(stopCurrentAudio(w2)) ELSE w2
  IN checkForStuckAudio(w3)

\* playAudioResponse, from the new-session branch to the stuck-audio check: what a call
\* does before it looks at its payload
sessionLifecycle(w, index, sessionId) ==
  LET \* new session
      w1 == IF sessionId # Null /\ sessionId # w.currentSessionId
            THEN LET a == IF ~w.isPlayingSequentially /\ getTotalActiveSources(w) = 0
                          THEN stopCurrentAudio(w) ELSE w
                     b == [a EXCEPT !.currentSessionId = sessionId]
                     c == cleanupSession(b)
                 IN initializeSessionState(c)
            ELSE w
      \* overlapping response in the same session
      w2 == IF SameSession(sessionId, w1.currentSessionId) /\ index = 0 /\ w1.sessionChunksSeen # {}
            THEN LET a == IF w1.now - w1.lastChunkTime > overlapWindow
                          THEN cleanupSession(stopCurrentAudio(w1)) ELSE w1
                 IN trackTurn(a)
            ELSE w1
      \* session timeout
      w3 == IF /\ w2.sessionStartTime > 0
               /\ w2.sessionChunksSeen # {}
               /\ w2.now - w2.sessionStartTime > sessionTimeout
            THEN cleanupSession(stopCurrentAudio(w2)) ELSE w2
  IN checkForStuckAudio(w3)

\* playAudioResponse after its session handling has produced w4: the fragment is marked
\* as seen, validated, queued, and the timers of the call are armed
acceptAudioChunk(w4, uid, kind, index, total, sessionId) ==
  LET estimatedChunkSizeMs == (DataLength(kind) * 3) \div 4
      w5 == IF SameSession(sessionId, w4.currentSessionId)
            THEN [w4 EXCEPT !.sessionChunksSeen = w4.sessionChunksSeen \cup {index}] ELSE w4
  IN IF total > loopGuard /\ index > loopGuard THEN w5
     ELSE IF DataLength(kind) < minDataLength THEN w5
     ELSE LET chunk == [uid |-> uid, sessionId |-> sessionId, index |-> index,
                        total |-> total, kind |-> kind, retryCount |-> 0]
              w6 == queueAudioChunk(w5, chunk)
              adaptiveTimeout == Max2(minAdaptiveTimeout, estimatedChunkSizeMs * 2)
              w7 == setupPlaybackTimeout(w6, adaptiveTimeout)
          IN [w7 EXCEPT !.forceTimers = w7.forceTimers \cup {w4.now + adaptiveTimeout},
                        !.lastActivity = w4.now]

\* playAudioResponse(audioData, index, total, sessionId), after initialize()
playAudioResponse(w, kind, index, total, sessionId) ==
  acceptAudioChunk(sessionLifecycle(w, index, sessionId), w.nSubmits + 1,
                   kind, index, total, sessionId)

\* ------------------------------------------------- playback driver
\* the promise of playAudioChunk for source / fragment uid is resolved: the pass that
\* awaits it goes on to the gap delay
Resolve(w, uid) ==
  [w EXCEPT !.passes = [p \in DOMAIN w.passes |->
       IF w.passes[p].pc = "render" /\ w.passes[p].chunk.uid = uid
       THEN [pc |-> "gap", chunk |-> NoChunk] ELSE w.passes[p]],
            !.hist.gapDelay = IF \E p \in DOMAIN w.passes :
                                   w.passes[p].pc = "render" /\ w.passes[p].chunk.uid = uid
                              THEN chunkDelay ELSE w.hist.gapDelay]

\* faulty variant of createAudioSourceAndPlayInternal: the forced-stop timer is not armed
createAudioSourceAndPlayInternalNoTimer(w, p) ==
  LET chunk == w.passes[p].chunk
      key   == IF chunk.sessionId = Null THEN DefaultKey ELSE chunk.sessionId
  IN   [w EXCEPT
            !.sessionAudioSources[key] = w.sessionAudioSources[key] \cup {chunk.uid},
            !.currentAudioSource = chunk.uid,
            !.sources = w.sources \cup
               {[uid |-> chunk.uid, key |-> key, st |-> "playing",
                 playbackRate |-> detectAudioFormat(HeaderBytes(chunk.kind)).playbackRate,
                 timeout |-> NoTime]},
            !.passes[p] = [pc |-> "render", chunk |-> chunk],
            !.hist.rendered = Append(w.hist.rendered,
               [uid |-> chunk.uid, sessionId |-> chunk.sessionId, index |-> chunk.index,
                stale |-> chunk.uid \in w.hist.stale, dropped |-> w.hist.dropped])]

\* createAudioSourceAndPlayInternal(audioBuffer, chunkIndex, sessionId || 'default', rate, resolve)
createAudioSourceAndPlayInternal(w, p) ==
  LET chunk == w.passes[p].chunk
      key   == IF chunk.sessionId = Null THEN DefaultKey ELSE chunk.sessionId
  IN   [w EXCEPT
            !.sessionAudioSources[key] = w.sessionAudioSources[key] \cup {chunk.uid},
            !.currentAudioSource = chunk.uid,
            !.sources = w.sources \cup
               {[uid |-> chunk.uid, key |-> key, st |-> "playing",
                 playbackRate |-> detectAudioFormat(HeaderBytes(chunk.kind)).playbackRate,
                 timeout |-> w.now + DurationMs + forcedStopExtra]},
            !.passes[p] = [pc |-> "render", chunk |-> chunk],
            !.hist.rendered = Append(w.hist.rendered,
               [uid |-> chunk.uid, sessionId |-> chunk.sessionId, index |-> chunk.index,
                stale |-> chunk.uid \in w.hist.stale, dropped |-> w.hist.dropped])]

\* faulty variant of the catch block: the retry count is not compared with maxRetries
CatchPlaybackErrorAlways(w, p) ==
  LET chunk == w.passes[p].chunk
  IN [w EXCEPT !.audioQueue = <<[chunk EXCEPT !.retryCount = chunk.retryCount + 1]>> \o w.audioQueue,
               !.passes[p] = [pc |-> "backoff", chunk |-> NoChunk]]

\* the catch block of playSequentialQueue for the pass at p
CatchPlaybackError(w, p) ==
  LET chunk == w.passes[p].chunk
  IN IF chunk.retryCount < maxRetries
     THEN [w EXCEPT !.audioQueue = <<[chunk EXCEPT !.retryCount = chunk.retryCount + 1]>> \o w.audioQueue,
                    !.passes[p] = [pc |-> "backoff", chunk |-> NoChunk],
                    !.hist.retrying = {x \in w.hist.retrying : x.uid # chunk.uid}
                       \cup {[uid |-> chunk.uid, renders |-> Len(w.hist.rendered)]}]
     ELSE [w EXCEPT !.passes[p] = [pc |-> "loop", chunk |-> NoChunk],
                    !.hist.dropped = w.hist.dropped \cup {chunk.uid}]

\* faulty variant of decodeAudioBuffer: a failed host decode is given up, without the
\* raw PCM fallback
decodeAudioBufferNoFallback(w, p) ==
  LET chunk == w.passes[p].chunk
  IN IF chunk.kind \in {"corrupt", "undecodable"}
     THEN [w EXCEPT !.passes[p] = [pc |-> "gap", chunk |-> NoChunk],
                    !.hist.nosource = w.hist.nosource \cup {chunk.uid}]
     ELSE createAudioSourceAndPlayInternal(w, p)

\* decodeAudioBuffer once decodeAudioData has settled, and the rest of playAudioChunk:
\* a rejected decode falls back to decodeRawPCM; without a buffer playAudioChunk
\* returns, with one it creates the source
decodeAudioBuffer(w, p) ==
  LET chunk == w.passes[p].chunk
      w1 == [w EXCEPT !.hist.fallbacks = Append(w.hist.fallbacks, chunk.uid)]
  IN CASE chunk.kind = "corrupt"     -> createAudioSourceAndPlayInternal(w1, p)
       [] chunk.kind = "undecodable" ->
            [w1 EXCEPT !.passes[p] = [pc |-> "gap", chunk |-> NoChunk],
                       !.hist.nosource = w.hist.nosource \cup {chunk.uid}]
       [] OTHER                      -> createAudioSourceAndPlayInternal(w, p)

\* faulty variant of playAudioChunk: a payload refused by validateAudioData is thrown
\* as an error
playAudioChunkMicroThrows(w, p) ==
  LET chunk == w.passes[p].chunk
  IN CASE chunk.kind \in {"broken", "invalid"} ->
            CatchPlaybackError(updatePerformanceMetrics(w, FALSE), p)
       [] chunk.kind = "pcm"     -> createAudioSourceAndPlayInternal(w, p)
       [] OTHER                  -> [w EXCEPT !.passes[p].pc = "decoding"]

\* playAudioChunk after its first await (initAudioContext), up to the next host wait:
\* it rejects, it returns without a source (validateAudioData), it creates the source
\* (raw PCM), or it waits for decodeAudioData
playAudioChunkMicro(w, p) ==
  LET chunk == w.passes[p].chunk
  IN CASE chunk.kind = "broken"  -> CatchPlaybackError(updatePerformanceMetrics(w, FALSE), p)
       [] chunk.kind = "invalid" -> [w EXCEPT !.passes[p] = [pc |-> "gap", chunk |-> NoChunk],
                                              !.hist.nosource = w.hist.nosource \cup {chunk.uid}]
       [] chunk.kind = "pcm"     -> createAudioSourceAndPlayInternal(w, p)
       [] OTHER                  -> [w EXCEPT !.passes[p].pc = "decoding"]

\* the cleanup closure of createAudioSourceAndPlayInternal (source.onended)
SourceCleanup(w, uid) ==
  LET s  == CHOOSE x \in w.sources : x.uid = uid
      w1 == [w EXCEPT !.sessionAudioSources[s.key] = w.sessionAudioSources[s.key] \ {uid},
                      !.currentAudioSource = IF w.currentAudioSource = uid THEN NoSource
                                             ELSE w.currentAudioSource]
      w2 == checkForStuckAudio(w1)
  IN Resolve(w2, uid)

SetSource(w, uid, st, timeout) ==
  [w EXCEPT !.sources = {IF x.uid = uid THEN [x EXCEPT !.st = st, !.timeout = timeout] ELSE x
                         : x \in w.sources}]

\* ---------------------------------------------------------------- actions
\* no continuation is a microtask away: a new task (event, timer, call) may run
Quiet == \A p \in DOMAIN passes : passes[p].pc \notin {"micro", "loop"}

\* a task other than a submit runs
Task(w) == [w EXCEPT !.hist.taskSince = w.nSubmits > 0]

\* initialize(): first user interaction, or the await at the top of playAudioResponse
Initialize ==
  /\ ~isInitialized
  /\ Becomes([World EXCEPT !.isInitialized = TRUE])

\* a fragment is delivered: playAudioResponse(audioData, index, total, sessionId)
Delivered(w, kind, index, total, sessionId) ==
  [playAudioResponse(w, kind, index, total, sessionId)
     EXCEPT !.nSubmits = w.nSubmits + 1,
            !.hist.arrived = Append(w.hist.arrived,
               [sessionId |-> sessionId, index |-> index, kind |-> kind, at |-> w.now]),
            !.hist.apart = w.hist.apart \/ w.hist.taskSince,
            !.hist.taskSince = FALSE]

Deliver(kind, index, total, sessionId) ==
  /\ Quiet /\ isInitialized
  /\ Becomes(Delivered(World, kind, index, total, sessionId))

\* any fragment of any session
Submit ==
  /\ nSubmits < MaxSubmits
  /\ \E kind \in DataKinds, index \in Indices, total \in Totals, sessionId \in SessionIds :
       index < total /\ Deliver(kind, index, total, sessionId)

\* the fragments 0..MaxIndex of one response of session "s1", each once, in any order
SubmitFragment ==
  \E index \in Indices :
    /\ \A i \in DOMAIN hist.arrived : hist.arrived[i].index # index
    /\ Deliver("wav", index, MaxIndex + 1, "s1")

\* a fragment of session "s1" with a RIFF/WAVE payload
SubmitWav ==
  /\ nSubmits < MaxSubmits
  /\ \E index \in Indices, total \in Totals :
       index < total /\ Deliver("wav", index, total, "s1")

\* a fragment of a response of one or of SessionTotal fragments, with a payload or
\* without one, for session "s1" or without a session id
SubmitSession ==
  /\ nSubmits < MaxSessionSubmits
  /\ \E kind \in {"wav", "empty"}, index \in 0..(SessionTotal - 1),
        total \in {1, SessionTotal}, sessionId \in {"s1", Null} :
       index < total /\ Deliver(kind, index, total, sessionId)

\* a fragment of a response of SessionTotal fragments of session "s1", with a RIFF/WAVE
\* payload; an index may arrive again
SubmitOverlap ==
  /\ nSubmits < MaxOverlapSubmits
  /\ \E index \in 0..(SessionTotal - 1) : Deliver("wav", index, SessionTotal, "s1")

\* the only fragment of a response, for session "s1" or without a session id; nothing
\* arrives after it
SubmitOnce ==
  /\ nSubmits = 0
  /\ \E sessionId \in {"s1", Null} : Deliver("wav", 0, 1, sessionId)

\* index of the n-th fragment to arrive in the burst: fragment 0 arrives last, the
\* others in order
BurstIndex(n) == IF n = BurstSize - 1 THEN 0 ELSE n + 1

\* payload of the fragment with index i of the burst: every third one is broken
BurstKind(i) == IF i % 3 = 0 THEN "broken" ELSE "wav"

\* the next fragment of a burst of BurstSize fragments of session "s1"
SubmitBurst ==
  /\ nSubmits < BurstSize
  /\ Deliver(BurstKind(BurstIndex(nSubmits)), BurstIndex(nSubmits), BurstSize, "s1")

Interrupt ==
  /\ Quiet
  /\ Becomes([Task(interrupt(World)) EXCEPT
                !.hist.stale = 1..nSubmits,
                !.hist.cut = UNION {sessionAudioSources[k] : k \in SessionKeys}])

ResetForContinuousConversation ==
  /\ Quiet
  /\ Becomes(Task(resetForContinuousConversation(World)))

\* microtask continuation of playAudioChunk for the fragment a pass has just shifted
PassMicro ==
  \E p \in DOMAIN passes :
    /\ passes[p].pc = "micro"
    /\ Becomes(playAudioChunkMicro(World, p))

\* the while loop of a pass goes round at once after a fragment was given up
PassContinue ==
  \E p \in DOMAIN passes :
    /\ passes[p].pc = "loop"
    /\ Becomes(LoopHead(World, p))

\* the while loop of a pass goes round after the gap delay or the retry backoff
PassLoop ==
  \E p \in DOMAIN passes :
    /\ passes[p].pc \in {"gap", "backoff"} /\ Quiet
    /\ Becomes(LoopHead(Task(World), p))

\* decodeAudioData settles and playAudioChunk goes on: fallback, source or return
PassDecoded ==
  \E p \in DOMAIN passes :
    /\ passes[p].pc = "decoding" /\ Quiet
    /\ Becomes(decodeAudioBuffer(Task(World), p))

\* the 'ended' event of a source is delivered (it played to its end, or it was stopped)
SourceEnded ==
  /\ Quiet
  /\ \E s \in sources :
       LET w1 == SourceCleanup(Task(World), s.uid)
       IN Becomes([w1 EXCEPT !.sources = {x \in w1.sources : x.uid # s.uid}])

\* the forced-stop timer of a source fires: source.stop(), onEnded()
SourceTimeout ==
  /\ Quiet
  /\ \E s \in sources :
       /\ s.timeout # NoTime /\ now >= s.timeout
       /\ LET st == IF s.st = "playing" THEN "stopped" ELSE s.st
          IN Becomes(Resolve(SetSource(Task(World), s.uid, st, NoTime), s.uid))

\* the timer of setupPlaybackTimeout fires
PlaybackTimeout ==
  /\ Quiet /\ playbackTimeoutId # NoTime /\ now >= playbackTimeoutId
  /\ LET w1 == [Task(World) EXCEPT !.playbackTimeoutId = NoTime]
     IN Becomes(IF w1.audioQueue # <<>> /\ ~w1.isPlayingSequentially
                THEN checkAndPlayConsecutiveChunks(w1) ELSE w1)

\* the 'force playback' timer of playAudioResponse fires
ForcePlayback ==
  /\ Quiet
  /\ \E d \in forceTimers :
       /\ now >= d
       /\ LET w1 == [Task(World) EXCEPT !.forceTimers = forceTimers \ {d}]
          IN Becomes(IF /\ w1.audioQueue # <<>>
                        /\ ~w1.isPlayingSequentially
                        /\ w1.sessionChunksSeen # {}
                     THEN checkAndPlayConsecutiveChunks(w1) ELSE w1)

\* the cleanup timer of setupPlaybackTimeout fires
CleanupTimer ==
  /\ Quiet
  /\ \E d \in cleanupTimers :
       /\ now >= d
       /\ Becomes(inactivityCleanup([Task(World) EXCEPT !.cleanupTimers = cleanupTimers \ {d}]))

\* a tick of the interval of startSessionMonitoring, which first comes healthInterval ms
\* after initialize(); the ticks are followed up to the MaxReconnections-th recovery,
\* and after it those that change more than reconnectionCount
CheckSessionHealth ==
  /\ Quiet /\ isInitialized /\ now - T0 >= healthInterval
  /\ LET w == Task(checkSessionHealth(World))
     IN /\ \/ performanceMetrics.reconnectionCount < MaxReconnections
           \/ [w EXCEPT !.performanceMetrics = performanceMetrics] # Task(World)
        /\ Becomes(w)

\* nothing happens until the tick of the health interval that finds the session
\* inactive for more than backendSessionTimeout ms
LongSilence ==
  /\ Quiet /\ now - lastActivity <= backendSessionTimeout
  /\ Becomes([World EXCEPT !.now = lastActivity + backendSessionTimeout + healthInterval])

\* time passes, by a whole number of clock units
Tick ==
  /\ Quiet
  /\ \E k \in 1..MaxUnits :
       /\ now + k * TimeUnit <= T0 + MaxUnits * TimeUnit
       /\ Becomes([World EXCEPT !.now = now + k * TimeUnit])

\* time passes once, by a whole number of clock units
Elapse ==
  /\ Quiet /\ now = T0
  /\ \E k \in 1..MaxUnits : Becomes([World EXCEPT !.now = now + k * TimeUnit])

\* ---------------------------------------------------------- specifications
\* Every specification but SpecWatchdog spans less than healthInterval ms from the
\* construction, so the interval of startSessionMonitoring does not tick in it.
\* Spec: any fragments of two sessions, interrupt and reset at any time, within a span
\* of time shorter than every timer of the engine
Next ==
  \/ Initialize
  \/ Submit
  \/ Interrupt
  \/ ResetForContinuousConversation
  \/ PassMicro
  \/ PassContinue
  \/ PassLoop
  \/ PassDecoded
  \/ SourceEnded

Spec == Init /\ [][Next]_vars

\* SpecStream: the fragments of one response arrive once each, in any order
NextStream ==
  \/ Initialize
  \/ SubmitFragment
  \/ PassMicro
  \/ PassLoop
  \/ PassDecoded
  \/ SourceEnded

SpecStream == Init /\ [][NextStream]_vars

\* SpecInterrupt: the fragments of one response arrive once each, in any order, and
\* interrupt() is called at any time
NextInterrupt ==
  \/ Initialize
  \/ SubmitFragment
  \/ Interrupt
  \/ PassMicro
  \/ PassLoop
  \/ PassDecoded
  \/ SourceEnded

SpecInterrupt == Init /\ [][NextInterrupt]_vars

\* SpecTimed: fragments of one session while the clock runs and the timers fire
NextTimed ==
  \/ Initialize
  \/ SubmitWav
  \/ PassMicro
  \/ PassLoop
  \/ PassDecoded
  \/ SourceEnded
  \/ SourceTimeout
  \/ PlaybackTimeout
  \/ ForcePlayback
  \/ CleanupTimer
  \/ Tick

SpecTimed == Init /\ [][NextTimed]_vars

\* SpecSession: fragments of one session, some empty and some without a session id,
\* while the clock runs; a source ends by its event or by its forced-stop timer
NextSession ==
  \/ Initialize
  \/ SubmitSession
  \/ PassMicro
  \/ PassLoop
  \/ PassDecoded
  \/ SourceEnded
  \/ SourceTimeout
  \/ Tick

SpecSession == Init /\ [][NextSession]_vars

\* SpecOverlap: the fragments of a response of session "s1" arrive, and arrive again,
\* while the clock runs
NextOverlap ==
  \/ Initialize
  \/ SubmitOverlap
  \/ PassMicro
  \/ PassLoop
  \/ PassDecoded
  \/ SourceEnded
  \/ Tick

SpecOverlap == Init /\ [][NextOverlap]_vars

\* SpecStale: as SpecSession, with one silence of any length at any moment and the
\* source left to end by its event
NextStale ==
  \/ Initialize
  \/ SubmitSession
  \/ PassMicro
  \/ PassLoop
  \/ PassDecoded
  \/ SourceEnded
  \/ Elapse

SpecStale == Init /\ [][NextStale]_vars

\* SpecWatchdog: one fragment arrives and no 'ended' event is ever delivered;
\* continuations run, due timers fire and the clock advances, within less than
\* config.sessionRefreshInterval of the construction
NextWatchdog ==
  \/ Initialize
  \/ SubmitOnce
  \/ PassMicro
  \/ PassLoop
  \/ PassDecoded
  \/ SourceTimeout
  \/ PlaybackTimeout
  \/ ForcePlayback
  \/ CleanupTimer
  \/ CheckSessionHealth
  \/ Tick
  \/ LongSilence

SpecWatchdog ==
  /\ Init /\ [][NextWatchdog]_vars
  /\ WF_vars(PassMicro) /\ WF_vars(PassLoop) /\ WF_vars(PassDecoded)
  /\ WF_vars(SourceTimeout) /\ WF_vars(PlaybackTimeout) /\ WF_vars(ForcePlayback)
  /\ WF_vars(CleanupTimer) /\ WF_vars(CheckSessionHealth)
  /\ WF_vars(Tick) /\ WF_vars(LongSilence)

\* SpecQueue: a burst of BurstSize fragments, some of them broken
NextQueue ==
  \/ Initialize
  \/ SubmitBurst
  \/ PassMicro
  \/ PassContinue
  \/ PassLoop
  \/ PassDecoded
  \/ SourceEnded

SpecQueue == Init /\ [][NextQueue]_vars

\* ------------------------------------------------------------- properties
QueueUids(q) == {q[i].uid : i \in DOMAIN q}
HeldUids == {passes[p].chunk.uid : p \in DOMAIN passes} \ {NoChunk.uid}
RenderedIndices == [i \in DOMAIN hist.rendered |-> hist.rendered[i].index]
Rendering == \E p \in DOMAIN passes : passes[p].pc = "render"

\* C1: in every reachable state the engine tracks at most one active output handle
\* (total entries of sessionAudioSources)
C1_AtMostOneHandle == getTotalActiveSources(World) <= 1

\* C2: whatever the order in which the fragments 0..N-1 of one session arrive, each
\* once, the indices handed to the render step are strictly ascending
C2_RenderAscending ==
  \A i, j \in DOMAIN hist.rendered :
    i < j => hist.rendered[i].index < hist.rendered[j].index

\* C3: once the fragments 2, 0, 1 (total 3) of session "s1" have been submitted in that
\* order to an idle engine, what has been rendered so far is an initial part of 0, 1, 2
C3_ScenarioA ==
  [i \in DOMAIN hist.arrived |-> hist.arrived[i].index] = <<2, 0, 1>>
    => RenderedIndices \in {<<>>, <<0>>, <<0, 1>>, <<0, 1, 2>>}

\* C4: a (sessionId, index) pair submitted again is not enqueued a second time: the
\* queue never holds two entries with the same pair, and no pair is rendered twice
C4_ResubmitNoOp ==
  /\ \A i, j \in DOMAIN audioQueue :
       i # j => <<audioQueue[i].sessionId, audioQueue[i].index>>
                  # <<audioQueue[j].sessionId, audioQueue[j].index>>
  /\ \A i, j \in DOMAIN hist.rendered :
       i # j => <<hist.rendered[i].sessionId, hist.rendered[i].index>>
                  # <<hist.rendered[j].sessionId, hist.rendered[j].index>>

\* C5: the queue never holds more than maxQueueSize fragments, and once BurstSize
\* fragments of one session have been submitted in one burst it holds exactly
\* maxQueueSize
C5_QueueBounded ==
  /\ Len(audioQueue) <= maxQueueSize
  /\ (nSubmits = BurstSize /\ ~hist.apart /\ ~hist.taskSince)
       => Len(audioQueue) = maxQueueSize

\* reached: a whole burst has been submitted back to back and the queue is full
C5_BurstFillsQueue ==
  /\ nSubmits = BurstSize /\ ~hist.apart /\ ~hist.taskSince
  /\ Len(audioQueue) = maxQueueSize

\* C6: a submit that finds the queue full evicts exactly one fragment, the one with the
\* lowest index among those buffered, and the submitted fragment is kept (in the
\* queue, or already taken from it by a pass)
C6_EvictsLowest ==
  [][(Len(audioQueue) = maxQueueSize /\ nSubmits' = nSubmits + 1)
       => /\ \E e \in DOMAIN audioQueue :
               /\ \A i \in DOMAIN audioQueue : audioQueue[e].index <= audioQueue[i].index
               /\ QueueUids(audioQueue) \ (QueueUids(audioQueue') \cup HeldUids')
                    = {audioQueue[e].uid}
          /\ nSubmits' \in QueueUids(audioQueue') \cup HeldUids']_vars

\* reached: fragment 0, the last to arrive, found the queue full and is now its head
C6_LowestArrivesLast ==
  /\ nSubmits = BurstSize /\ Len(audioQueue) = maxQueueSize
  /\ audioQueue[1].index = 0 /\ audioQueue[1].uid = BurstSize

\* C7: a fragment whose render fails is retried at most maxRetries times, then it is
\* given up and never buffered again, and the pass that gave it up goes straight on
\* to the next buffered fragment
C7_RetryThenDrop ==
  /\ [](/\ \A i \in DOMAIN audioQueue : audioQueue[i].retryCount <= maxRetries
        /\ \A p \in DOMAIN passes : passes[p].chunk.retryCount <= maxRetries
        /\ hist.dropped \cap (QueueUids(audioQueue) \cup HeldUids) = {})
  /\ [][\A p \in DOMAIN passes :
          (audioQueue # <<>> /\ passes[p].pc = "loop" /\ passes' # passes)
            => /\ Len(passes') = Len(passes)
               /\ passes'[p].chunk = Head(audioQueue)
               /\ audioQueue' = Tail(audioQueue)]_vars

\* reached: a source was created after a fragment had been given up
C7_RenderedAfterDrop ==
  \E i \in DOMAIN hist.rendered : hist.rendered[i].dropped # {}

\* C8: at most one playback pass is in flight at any instant
C8_SinglePass == Len(passes) <= 1

\* C9: interrupt() called while a fragment is rendering leaves no tracked handle, an
\* empty queue and the playback flag false; and the first fragment submitted after an
\* interrupt, if it has a payload, is buffered alone (no fragment from before the
\* interrupt is in the queue) and counted as the first of its sequence
C9_InterruptClears ==
  /\ [][(Interrupt /\ Rendering)
          => /\ getTotalActiveSources(World)' = 0
             /\ currentAudioSource' = NoSource
             /\ \A s \in sources' : s.st # "playing"
             /\ audioQueue' = <<>>
             /\ ~isPlayingSequentially']_vars
  /\ [][(nSubmits > 0 /\ hist.stale = 1..nSubmits /\ hist.cut # {}
           /\ nSubmits' = nSubmits + 1
           /\ hist.arrived'[nSubmits'].kind # "empty")
          => /\ nSubmits' \in QueueUids(audioQueue') \cup HeldUids'
             /\ QueueUids(audioQueue') \subseteq {nSubmits'}
             /\ consecutiveChunkCount' = 1]_vars

\* reached: interrupt() cut a playing source and a fragment submitted later was rendered
C9_FreshSequencePlays ==
  /\ hist.cut # {}
  /\ \E i \in DOMAIN hist.rendered : hist.rendered[i].uid \notin hist.stale

\* C10: after interrupt() has returned, no source is created for a fragment submitted
\* before it, and no such fragment is in the queue
C10_NoStaleOutput ==
  /\ \A i \in DOMAIN hist.rendered : ~hist.rendered[i].stale
  /\ QueueUids(audioQueue) \cap hist.stale = {}

\* C11: interrupt() can be called between any two tasks; it always leaves the queue
\* empty, no tracked output handle, no current source and the playback flag false, and
\* calling it a second time right away changes nothing more
C11_InterruptIdempotent ==
  /\ [](Quiet => ENABLED Interrupt)
  /\ [][Interrupt => /\ audioQueue' = <<>>
                     /\ getTotalActiveSources(World)' = 0
                     /\ currentAudioSource' = NoSource
                     /\ ~isPlayingSequentially']_vars
  /\ [](interrupt(interrupt(World)) = interrupt(World))

\* reached: interrupt() has run after every submit so far, at a moment when no source
\* was tracked, and the engine is idle with an empty queue
C11_InterruptWhenIdle ==
  /\ nSubmits > 0 /\ hist.stale = 1..nSubmits /\ hist.cut = {}
  /\ hist.rendered # <<>>
  /\ audioQueue = <<>> /\ getTotalActiveSources(World) = 0 /\ ~isPlayingSequentially

\* the submit that this step makes: its arguments, as recorded on arrival
Submitted == nSubmits' = nSubmits + 1
Arrival == hist.arrived'[nSubmits']

\* C12: when a fragment of another session than currentSessionId arrives while the
\* playback flag is false and no source is tracked, the queue holds nothing but the new
\* fragment after the submit
C12_NewSessionClearsQueue ==
  [][(/\ Submitted
      /\ Arrival.sessionId # currentSessionId
      /\ ~isPlayingSequentially /\ getTotalActiveSources(World) = 0)
       => QueueUids(audioQueue') \subseteq {nSubmits'}]_vars

\* C13: when a non-empty fragment of another session than currentSessionId arrives
\* while the playback flag is true and a source is tracked, the submit stops no source
\* and leaves the playback flag true
C13_NewSessionDefersClear ==
  [][(/\ Submitted
      /\ Arrival.sessionId # currentSessionId
      /\ Arrival.kind # "empty"
      /\ isPlayingSequentially /\ getTotalActiveSources(World) > 0)
       => /\ sessionAudioSources' = sessionAudioSources
          /\ sources' = sources
          /\ isPlayingSequentially']_vars

\* C14: when fragment 0 of the current session arrives with sessionChunksSeen non-empty
\* and more than overlapWindow ms after the previous fragment arrived, the submit leaves
\* sessionChunksSeen = {0}
C14_LateRestartClears ==
  [][(/\ Submitted
      /\ Arrival.sessionId = currentSessionId
      /\ Arrival.index = 0
      /\ sessionChunksSeen # {}
      /\ now - lastActivity > overlapWindow)
       => sessionChunksSeen' = {0}]_vars

\* C15: when fragment 0 of the current session arrives with sessionChunksSeen non-empty
\* and at most overlapWindow ms after the last activity, the submit stops no source,
\* removes no index from sessionChunksSeen, does not clear the playback flag and takes
\* no buffered fragment out of the queue other than to render it
C15_SpuriousOverlapKeeps ==
  [][(/\ Submitted
      /\ Arrival.sessionId = currentSessionId
      /\ Arrival.index = 0
      /\ sessionChunksSeen # {}
      /\ now - lastActivity <= overlapWindow)
       => /\ sources' = sources
          /\ sessionAudioSources' = sessionAudioSources
          /\ sessionChunksSeen \subseteq sessionChunksSeen'
          /\ (isPlayingSequentially => isPlayingSequentially')
          /\ QueueUids(audioQueue) \subseteq QueueUids(audioQueue') \cup HeldUids']_vars

C17_AlwaysRecorded ==
  [][Submitted => /\ Arrival.index \in sessionChunksSeen'
                  /\ lastActivity' = now]_vars

\* the stuck check would find stuck output now: its cooldown is over, a source is
\* tracked and lastChunkTime lies more than 3 * chunkTimeout ms back
StuckNow ==
  /\ now - lastStuckAudioCheck >= stuckCheckCooldown
  /\ getTotalActiveSources(World) > 0
  /\ now - lastChunkTime > chunkTimeout * 3

C20_StuckCheckClearsState ==
  StuckNow =>
    LET after == checkForStuckAudio(World)
    IN /\ after.audioQueue = <<>>
       /\ after.sessionChunksSeen = {}
       /\ ~after.isPlayingSequentially

\* C21: an evaluation of the stuck condition stamps lastStuckAudioCheck with its time;
\* a step that evaluates it again, with the stamp of the previous evaluation still in
\* place before the step, comes at least stuckCheckCooldown ms after that evaluation
C21_EvaluationsApart ==
  [][(/\ lastStuckAudioCheck > 0
      /\ lastStuckAudioCheck' > 0
      /\ lastStuckAudioCheck' # lastStuckAudioCheck)
       => lastStuckAudioCheck' - lastStuckAudioCheck >= stuckCheckCooldown]_vars

\* ---------------------------------------------------------- forward progress
\* a fragment of a response of one or of SessionTotal fragments of session "s1", with a
\* RIFF/WAVE payload or with one that never renders
SubmitProgress ==
  /\ nSubmits < MaxProgressSubmits
  /\ \E kind \in {"wav", "broken"}, index \in 0..(SessionTotal - 1),
        total \in {1, SessionTotal} :
       index < total /\ Deliver(kind, index, total, "s1")

\* SpecProgress: at most MaxProgressSubmits fragments arrive and then no more; every
\* continuation runs, every 'ended' event is delivered, every due timer fires and the
\* clock advances, within less than config.sessionRefreshInterval of the construction
NextProgress ==
  \/ Initialize
  \/ SubmitProgress
  \/ PassMicro
  \/ PassContinue
  \/ PassLoop
  \/ PassDecoded
  \/ SourceEnded
  \/ SourceTimeout
  \/ PlaybackTimeout
  \/ ForcePlayback
  \/ CleanupTimer
  \/ CheckSessionHealth
  \/ Tick
  \/ LongSilence

SpecProgress ==
  /\ Init /\ [][NextProgress]_vars
  /\ WF_vars(PassMicro) /\ WF_vars(PassContinue) /\ WF_vars(PassLoop)
  /\ WF_vars(PassDecoded) /\ WF_vars(SourceEnded) /\ WF_vars(SourceTimeout)
  /\ WF_vars(PlaybackTimeout) /\ WF_vars(ForcePlayback) /\ WF_vars(CleanupTimer)
  /\ WF_vars(CheckSessionHealth) /\ WF_vars(Tick) /\ WF_vars(LongSilence)

\* C22: whenever a fragment is buffered or a pass is running, the queue is eventually
\* empty with the playback flag false
C22_QueueDrains ==
  (audioQueue # <<>> \/ isPlayingSequentially)
     ~> (audioQueue = <<>> /\ ~isPlayingSequentially)

\* a lone fragment of a response of SessionTotal fragments was never rendered and is
\* no longer buffered: the health interval found the session inactive and dropped it
C22_LoneFragmentDropped ==
  /\ nSubmits = 1 /\ hist.arrived[1].kind = "wav"
  /\ hist.rendered = <<>>
  /\ audioQueue = <<>> /\ ~isPlayingSequentially
  /\ now - lastActivity > backendSessionTimeout

\* ---------------------------------------------------------- start rules
\* a fragment with a RIFF/WAVE payload of a response of one or of MaxIndex + 1
\* fragments, of either session
SubmitShort ==
  /\ nSubmits < MaxShortSubmits
  /\ \E index \in Indices, total \in Totals, sessionId \in SessionIds :
       index < total /\ Deliver("wav", index, total, sessionId)

\* SpecShort: fragments of short responses of two sessions arrive at once or after a
\* wait, and are rendered
NextShort ==
  \/ Initialize
  \/ SubmitShort
  \/ PassMicro
  \/ PassLoop
  \/ PassDecoded
  \/ SourceEnded
  \/ Elapse

SpecShort == Init /\ [][NextShort]_vars

\* no pass is running and no source is tracked
Idle == ~isPlayingSequentially /\ passes = <<>> /\ getTotalActiveSources(World) = 0

\* the fragments the engine holds unrendered after a step: those in the queue and those
\* a pass has shifted out of it
BufferedNext ==
  ({audioQueue'[i] : i \in DOMAIN audioQueue'}
     \cup {passes'[p].chunk : p \in DOMAIN passes'}) \ {NoChunk}

\* the fragment the submit has queued
ArrivedChunk == CHOOSE c \in BufferedNext : c.uid = nSubmits'

\* after the submit every fragment 0..total-1 of the arriving response is held
AllBufferedNext ==
  /\ \E c \in BufferedNext : c.uid = nSubmits'
  /\ \A i \in 0..(ArrivedChunk.total - 1) :
       \E c \in BufferedNext : /\ c.sessionId = ArrivedChunk.sessionId
                               /\ c.total = ArrivedChunk.total
                               /\ c.index = i

\* C23: a submit to an idle engine after which all the fragments of the
\* arriving response, of at most 3 fragments, are buffered starts the playback
C23_ShortResponseStarts ==
  [][(Submitted /\ Idle /\ AllBufferedNext /\ ArrivedChunk.total <= 3)
       => isPlayingSequentially']_vars

\* the indices the engine holds unrendered after a step
IndicesNext == {c.index : c \in BufferedNext}
LowestNext == CHOOSE i \in IndicesNext : \A j \in IndicesNext : i <= j

\* C24: a submit to an idle engine after which the lowest buffered index and its
\* successor are both buffered (a run of at least 2 from the lowest index, adjacent
\* indices at most 1 apart) starts the playback within the submit: the flag is set, a
\* pass holds the first fragment and no time has passed
C24_ConsecutiveRunStarts ==
  [][(/\ Submitted /\ Idle
      /\ IndicesNext # {} /\ LowestNext + 1 \in IndicesNext)
       => /\ isPlayingSequentially'
          /\ Len(passes') = 1 /\ passes'[1].chunk.index = LowestNext
          /\ now' = now]_vars

\* fragments 0 and 1 of responses of three, of different sessions, arrived one after
\* the other with no wait: only the rule of the consecutive run applies, and the pass
\* has started with fragment 0
C24_RunOfTwoStarted ==
  /\ nSubmits = 2 /\ now = T0
  /\ hist.arrived[1].sessionId # hist.arrived[2].sessionId
  /\ {hist.arrived[1].index, hist.arrived[2].index} = {0, 1}
  /\ isPlayingSequentially /\ hist.rendered = <<>>
  /\ Len(passes) = 1 /\ passes[1].chunk.index = 0 /\ passes[1].chunk.total = 3
  /\ Len(audioQueue) = 1 /\ audioQueue[1].index = 1 /\ audioQueue[1].total = 3

\* ---------------------------------------------------------- soft reset
\* a fragment of a response of SessionTotal fragments of session "s1", with a RIFF/WAVE
\* payload or with one that never renders; an index may arrive again
SubmitTurn ==
  /\ nSubmits < MaxTurnSubmits
  /\ \E kind \in {"wav", "broken"}, index \in 0..(SessionTotal - 1) :
       Deliver(kind, index, SessionTotal, "s1")

\* SpecReset: fragments of session "s1" arrive and are rendered or given up, and
\* resetForContinuousConversation() is called at any time
NextReset ==
  \/ Initialize
  \/ SubmitTurn
  \/ ResetForContinuousConversation
  \/ PassMicro
  \/ PassContinue
  \/ PassLoop
  \/ PassDecoded
  \/ SourceEnded

SpecReset == Init /\ [][NextReset]_vars

\* C25: resetForContinuousConversation() leaves the queue and the seen indices empty and
\* no current session id, changes none of the counters turnCount, totalChunksProcessed,
\* successfulDecodes, failedDecodes, reconnectionCount, and stops no source: the sources,
\* their tracking and currentAudioSource are as before
C25_SoftClear ==
  [][ResetForContinuousConversation =>
       /\ audioQueue' = <<>>
       /\ sessionChunksSeen' = {}
       /\ currentSessionId' = Null
       /\ performanceMetrics' = performanceMetrics
       /\ sources' = sources
       /\ sessionAudioSources' = sessionAudioSources
       /\ currentAudioSource' = currentAudioSource]_vars

\* a source of session "s1" plays and is tracked and a counter is above 0, although a
\* reset has left no current session id, an empty queue and no seen index
C25_ResetWhilePlaying ==
  /\ currentSessionId = Null /\ audioQueue = <<>> /\ sessionChunksSeen = {}
  /\ sessionAudioSources["s1"] # {}
  /\ \E s \in sources : s.uid = currentAudioSource /\ s.st = "playing"
  /\ performanceMetrics.failedDecodes > 0

\* ---------------------------------------------------------- payloads
\* a fragment of a response of SessionTotal fragments of session "s1" with any payload;
\* an index may arrive again
SubmitPayload ==
  /\ nSubmits < MaxPayloadSubmits
  /\ \E kind \in DataKinds \cup DecodeKinds, index \in 0..(SessionTotal - 1) :
       Deliver(kind, index, SessionTotal, "s1")

\* SpecPayload: fragments of session "s1" with every kind of payload arrive and are
\* rendered, refused or given up
NextPayload ==
  \/ Initialize
  \/ SubmitPayload
  \/ PassMicro
  \/ PassContinue
  \/ PassLoop
  \/ PassDecoded
  \/ SourceEnded

SpecPayload == Init /\ [][NextPayload]_vars

\* the fragments now in the queue or held by a pass
Buffered == {audioQueue[i] : i \in DOMAIN audioQueue}
              \cup ({passes[p].chunk : p \in DOMAIN passes} \ {NoChunk})

\* C26: a fragment whose payload is absent or too short is never queued; one whose
\* payload is not validly encoded is never rendered from, is never re-inserted for a
\* retry (its retry count stays 0 and once refused it is buffered no more), and the
\* pass that refused it goes on to its gap delay with the queue as it was
C26_InvalidDroppedOnce ==
  /\ [](\A i \in 1..nSubmits :
          hist.arrived[i].kind \in {"empty", "invalid"} =>
            /\ \A k \in DOMAIN hist.rendered : hist.rendered[k].uid # i
            /\ \A c \in Buffered : c.uid = i => c.retryCount = 0
            /\ i \in hist.nosource => \A c \in Buffered : c.uid # i
            /\ hist.arrived[i].kind = "empty" =>
                 i \notin hist.nosource /\ \A c \in Buffered : c.uid # i)
  /\ [][\A p \in DOMAIN passes :
          (/\ passes[p].pc = "micro" /\ passes[p].chunk.kind = "invalid"
           /\ passes' # passes)
            => /\ Len(passes') = Len(passes)
               /\ passes'[p] = [pc |-> "gap", chunk |-> NoChunk]
               /\ audioQueue' = audioQueue
               /\ isPlayingSequentially' = isPlayingSequentially
               /\ sources' = sources]_vars

\* fragment 0, not validly encoded, and fragment 1 were buffered when the pass started:
\* fragment 0 was refused without a source and the same pass has rendered fragment 1
C26_RefusedThenNextRendered ==
  /\ nSubmits = 2
  /\ hist.arrived[1].kind = "invalid" /\ hist.arrived[1].index = 0
  /\ hist.arrived[2].kind = "wav" /\ hist.arrived[2].index = 1
  /\ 1 \in hist.nosource
  /\ Len(hist.rendered) = 1 /\ hist.rendered[1].uid = 2
  /\ Len(passes) = 1

\* number of calls of decodeRawPCM made for fragment i after a failed host decode
FallbackCount(i) == Cardinality({k \in DOMAIN hist.fallbacks : hist.fallbacks[k] = i})
RenderedUids == {hist.rendered[k].uid : k \in DOMAIN hist.rendered}

\* C27: for a fragment detected as WAV that the host decoder rejects, decodeRawPCM is
\* called exactly once; if it yields a buffer the fragment is rendered from it (it never
\* ends without a source), if it yields none the fragment is never rendered, is not
\* re-inserted for a retry and is buffered no more, and the pass goes on to its gap
\* delay with the queue as it was; no fallback is made for any other fragment
C27_OneFallback ==
  /\ [](\A i \in 1..nSubmits :
          LET kind == hist.arrived[i].kind
          IN /\ FallbackCount(i) <= 1
             /\ kind \notin {"corrupt", "undecodable"} => FallbackCount(i) = 0
             /\ kind \in {"corrupt", "undecodable"} =>
                  /\ (i \in RenderedUids \cup hist.nosource) = (FallbackCount(i) = 1)
                  /\ \A c \in Buffered : c.uid = i => c.retryCount = 0
                  /\ i \in QueueUids(audioQueue) => FallbackCount(i) = 0
             /\ kind = "corrupt" => i \notin hist.nosource
             /\ kind = "undecodable" => i \notin RenderedUids)
  /\ [][\A p \in DOMAIN passes :
          (/\ passes[p].pc = "decoding" /\ passes[p].chunk.kind = "undecodable"
           /\ passes' # passes)
            => /\ Len(passes') = Len(passes)
               /\ passes'[p] = [pc |-> "gap", chunk |-> NoChunk]
               /\ audioQueue' = audioQueue
               /\ sources' = sources]_vars

\* fragment 0, for which the fallback yielded no buffer, was given up after one call of
\* decodeRawPCM, and the same pass has rendered fragment 1 from the buffer of its fallback
C27_FallbackRendered ==
  /\ nSubmits = 2
  /\ hist.arrived[1].kind = "undecodable" /\ hist.arrived[1].index = 0
  /\ hist.arrived[2].kind = "corrupt" /\ hist.arrived[2].index = 1
  /\ hist.fallbacks = <<1, 2>>
  /\ 1 \in hist.nosource
  /\ RenderedUids = {2}
  /\ Len(passes) = 1 /\ passes[1].pc = "render"

\* C28: no source is ever created for a fragment whose decoded buffer lasts less than
\* 1 ms or more than 10 s, and such a fragment is never re-inserted for a retry
C28_CorruptBufferRejected ==
  \A i \in 1..nSubmits :
    hist.arrived[i].kind \in {"overlong", "blank"} =>
      /\ i \notin RenderedUids
      /\ \A c \in Buffered : c.uid = i => c.retryCount = 0

SubmitRetry ==
  /\ nSubmits < MaxRetrySubmits
  /\ \E kind \in {"wav", "broken"}, index \in 0..(SessionTotal - 1) :
       Deliver(kind, index, SessionTotal, "s1")

\* SpecRetry: fragments of session "s1" arrive while a pass renders, retries and gives up
NextRetry ==
  \/ Initialize
  \/ SubmitRetry
  \/ PassMicro
  \/ PassContinue
  \/ PassLoop
  \/ PassDecoded
  \/ SourceEnded

SpecRetry == Init /\ [][NextRetry]_vars

C31_QueueSorted ==
  /\ [](\A i, j \in DOMAIN audioQueue : i < j => audioQueue[i].index <= audioQueue[j].index)
  /\ [][\A p \in DOMAIN passes' :
          (passes'[p].chunk.uid \in QueueUids(audioQueue) \cup {nSubmits'}
             /\ passes'[p].chunk.uid \notin HeldUids)
            => \A i \in DOMAIN audioQueue' : passes'[p].chunk.index <= audioQueue'[i].index]_vars

\* reached: the whole burst has arrived, fragment 0 (the last to arrive) was taken from
\* the head of the full queue, failed, and is back at the head awaiting its retry
C31_RetryAtHeadOfFullQueue ==
  /\ nSubmits = BurstSize /\ Len(audioQueue) = maxQueueSize
  /\ audioQueue[1].index = 0 /\ audioQueue[1].retryCount > 0

\* ---------------------------------------------------------- readiness rule
\* one of the first SessionTotal fragments of a response of one or of MaxIndex + 1
\* fragments, of either session, with a RIFF/WAVE payload or with none
SubmitReady ==
  /\ nSubmits < MaxReadySubmits
  /\ \E kind \in {"wav", "empty"}, index \in 0..(SessionTotal - 1), total \in Totals,
        sessionId \in SessionIds :
       index < total /\ Deliver(kind, index, total, sessionId)

\* SpecReady: fragments of two sessions and one wait of any length
NextReady ==
  \/ Initialize
  \/ SubmitReady
  \/ PassMicro
  \/ PassLoop
  \/ PassDecoded
  \/ SourceEnded
  \/ Elapse

SpecReady == Init /\ [][NextReady]_vars

\* arrival time of the fragment that has waited longest among those held after a step
FirstBufferedNext ==
  CHOOSE t \in {hist'.arrived[c.uid].at : c \in BufferedNext} :
    \A c \in BufferedNext : t <= hist'.arrived[c.uid].at

\* the readiness rule of the reorder buffer, evaluated on what is held after a step:
\* (1) as many fragments as a short response (of at most 3) has, (2) the lowest index
\* and its successor, (3) more than 500 ms since the first buffered fragment arrived
\* and at least 2 fragments, (4) at least 3 fragments, (5) less than 100 ms since the
\* last arrival and at least 2 arrivals in a row
ReadyNext ==
  LET n == Cardinality(BufferedNext)
  IN \/ \E c \in BufferedNext : n = c.total /\ c.total <= 3
     \/ LowestNext + 1 \in IndicesNext
     \/ now' - FirstBufferedNext > waitTooLong /\ n >= 2
     \/ n >= 3
     \/ now' - hist'.arrived[nSubmits'].at < recentWindow /\ consecutiveChunkCount' >= 2

\* a step that evaluates checkAndPlayConsecutiveChunks with no pass active and a
\* non-empty queue: a submit that queues its fragment
Decides ==
  /\ passes = <<>> /\ ~isPlayingSequentially
  /\ Submitted /\ \E c \in BufferedNext : c.uid = nSubmits'

\* C32: whenever checkAndPlayConsecutiveChunks is evaluated with no pass active and a
\* non-empty queue, it starts the playback if and only if one of the five readiness
\* rules holds
C32_StartsIffReady ==
  [][Decides => (isPlayingSequentially' <=> ReadyNext)]_vars

\* ------------------------------------------------------ completion of a render
\* the only fragment of a response of session "s1", whose payload ends in a decoded
\* buffer of any duration: by the host decoder, by decodeRawPCM, or by decodeRawPCM
\* after the host decoder failed
SubmitRender ==
  /\ nSubmits < MaxRenderSubmits
  /\ \E kind \in {"wav", "pcm", "corrupt", "overlong", "blank"} :
       Deliver(kind, 0, 1, "s1")

\* the time reaches the deadline of the forced-stop timer of a source
AwaitDeadline ==
  /\ Quiet
  /\ \E s \in sources :
       /\ s.timeout # NoTime /\ now < s.timeout
       /\ Becomes([World EXCEPT !.now = s.timeout])

\* SpecRender: fragments that render, interrupt() at any time; the 'ended' event of a
\* source may never be delivered, while time goes on, timers fire and pending
\* continuations run
NextRender ==
  \/ Initialize
  \/ SubmitRender
  \/ Interrupt
  \/ PassMicro
  \/ PassLoop
  \/ PassDecoded
  \/ SourceEnded
  \/ SourceTimeout
  \/ AwaitDeadline

SpecRender ==
  /\ Init /\ [][NextRender]_vars
  /\ WF_vars(PassMicro) /\ WF_vars(PassLoop) /\ WF_vars(PassDecoded)
  /\ WF_vars(SourceTimeout) /\ WF_vars(AwaitDeadline)

\* a pass awaits the end of the render of fragment u
RenderingOf(u) ==
  \E p \in DOMAIN passes : passes[p].pc = "render" /\ passes[p].chunk.uid = u

\* C33: a pass that awaits the end of a render eventually goes on, whether or not the
\* 'ended' event of the source is ever delivered
C33_RenderCompletes ==
  \A u \in 1..MaxRenderSubmits : RenderingOf(u) ~> ~RenderingOf(u)

\* reached: the forced-stop timer of a source has fired while the source was still
\* tracked (its 'ended' event had not been delivered), and the pass has gone on
C33_CompletedByTimeout ==
  \E s \in sources :
    /\ s.st = "stopped" /\ s.timeout = NoTime
    /\ s.uid \in sessionAudioSources[s.key]
    /\ ~RenderingOf(s.uid)
    /\ \E i \in DOMAIN hist.rendered : hist.rendered[i].uid = s.uid

\* ------------------------------------------------------------------ C34
\* const adaptiveParams of playAudioResponse for a fragment: the result of the
\* calculator for its estimated size (audioData.length * 0.75) and its response's total
adaptiveParams(chunk) ==
  calculateAdaptivePlaybackParams((DataLength(chunk.kind) * 3) \div 4, chunk.total)

\* C34: whenever a pass creates the source of a fragment, the rate of the source is the
\* playbackRate the adaptive parameter calculator gives for that fragment, and whenever
\* the render of a fragment has completed, the gap the pass then waits is the delay the
\* calculator gives for that fragment
C34_UsesAdaptiveParams ==
  [][/\ \A s \in sources' \ sources : \A p \in DOMAIN passes' :
          (passes'[p].pc = "render" /\ passes'[p].chunk.uid = s.uid)
            => s.playbackRate = adaptiveParams(passes'[p].chunk).playbackRate
     /\ \A p \in DOMAIN passes :
          (passes[p].pc = "render" /\ p \in DOMAIN passes' /\ passes'[p].pc = "gap")
            => hist'.gapDelay * DelayUnit = adaptiveParams(passes[p].chunk).delay]_vars

\* ------------------------------------------------------------------ C35
\* from w to v no render is started: no pass is added or moved, no source is created,
\* nothing is rendered, the playing flag is not raised, and handles and queue are at
\* most stopped, untracked and cleared
StartsNoRender(w, v) ==
  /\ v.passes = w.passes
  /\ v.hist.rendered = w.hist.rendered
  /\ v.isPlayingSequentially => w.isPlayingSequentially
  /\ \A s \in v.sources : \E o \in w.sources :
        /\ s.uid = o.uid
        /\ s = o \/ (o.st = "playing" /\ s = [o EXCEPT !.st = "stopped"])
  /\ \A k \in SessionKeys : v.sessionAudioSources[k] \subseteq w.sessionAudioSources[k]
  /\ v.currentAudioSource \in {w.currentAudioSource, NoSource}
  /\ v.audioQueue \in {w.audioQueue, <<>>}

\* C35: in every reachable state, the stuck-audio check, cleanupSession, the session
\* handling of playAudioResponse (new session, overlap, session timeout) for any
\* fragment index and session id, and the inactivity cleanup of setupPlaybackTimeout
\* start no render: each creates no source and starts no pass, and only stops or
\* untracks sources and clears the queue
C35_LifecycleStartsNoRender ==
  /\ StartsNoRender(World, checkForStuckAudio(World))
  /\ StartsNoRender(World, cleanupSession(World))
  /\ StartsNoRender(World, inactivityCleanup(World))
  /\ \A sessionId \in SessionIds \cup {Null}, index \in Indices :
       StartsNoRender(World, sessionLifecycle(World, index, sessionId))

\* reached: a pass is in flight with fragments queued, and a fragment arriving now
\* would have the session handling stop a playing source and clear the queue
C35_HandlingStopsAndClears ==
  /\ passes # <<>> /\ audioQueue # <<>>
  /\ \E sessionId \in SessionIds \cup {Null}, index \in Indices :
       LET v == sessionLifecycle(World, index, sessionId)
       IN /\ v.audioQueue = <<>>
          /\ \E s \in sources : s.st = "playing" /\ s \notin v.sources

\* ------------------------------------------------------------------ C36
\* SpecFormat: detectAudioFormat is called once, on a buffer of at most MaxBufferLen
\* bytes made of a 4-byte head, a chunk size, a 4-byte form type and zeros, cut to
\* any length
Heads == {RIFF, OggS, <<255, 251, 144, 0>>, <<255, 224, 0, 0>>, <<255, 192, 0, 0>>,
          <<255, 31, 0, 0>>, <<82, 73, 70, 88>>, <<79, 103, 103, 0>>, <<0, 0, 0, 0>>,
          <<254, 255, 0, 0>>}
FormTypes == {WAVE, <<87, 65, 86, 88>>, <<65, 86, 73, 32>>}
Buffers ==
  {SubSeq(h \o <<36, 8, 0, 0>> \o t \o [i \in 1..MaxBufferLen |-> 0], 1, n) :
     h \in Heads, t \in FormTypes, n \in 0..MaxBufferLen}

InitFormat ==
  /\ InitEngine
  /\ \E b \in Buffers : hist = [EmptyHist EXCEPT !.detected.bytes = b]

\* detectAudioFormat(bytes, chunkInfo, timestamp) is called on the buffer
DetectFormat ==
  /\ ~hist.detected.done
  /\ LET formatInfo == detectAudioFormat(hist.detected.bytes)
     IN Becomes([World EXCEPT !.hist.detected =
                   [bytes |-> hist.detected.bytes, done |-> TRUE,
                    format |-> formatInfo.format,
                    baseRate |-> baseRate(formatInfo.format),
                    playbackRate |-> formatInfo.playbackRate]])

NextFormat == DetectFormat

SpecFormat == InitFormat /\ [][NextFormat]_vars

\* the buffer has the bytes of pat from offset off on
HasAt(bytes, off, pat) ==
  /\ Len(bytes) >= off + Len(pat)
  /\ \A i \in 1..Len(pat) : bytes[off + i] = pat[i]

\* the container a format label of the detector stands for
FormatClass(format) == IF format = "OGG_OPUS" THEN "OGG" ELSE format

\* C36: the detector classifies a buffer as WAV when bytes 0..3 are "RIFF" and bytes
\* 8..11 are "WAVE", otherwise as OGG when bytes 0..3 are "OggS", otherwise as MP3 when
\* byte 0 is 0xFF and the top three bits of byte 1 are set, otherwise as unknown; for
\* every buffer, those of fewer than 12 bytes included
C36_DetectsByPriority ==
  hist.detected.done =>
    LET bytes == hist.detected.bytes
    IN FormatClass(hist.detected.format) =
         IF HasAt(bytes, 0, RIFF) /\ HasAt(bytes, 8, WAVE) THEN "WAV"
         ELSE IF HasAt(bytes, 0, OggS) THEN "OGG"
         ELSE IF Len(bytes) >= 2 /\ bytes[1] = 255 /\ bytes[2] >= 224 THEN "MP3"
         ELSE "unknown"

\* reached: a buffer of fewer than 12 bytes that begins with "RIFF" was classified as
\* unknown
C36_ShortRiffIsUnknown ==
  /\ hist.detected.done
  /\ Len(hist.detected.bytes) < 12 /\ HasAt(hist.detected.bytes, 0, RIFF)
  /\ hist.detected.format = "unknown"

\* ------------------------------------------------------------------ C37
\* C37: the baseRate calculateAdaptivePlaybackRate selects for the format the detector
\* produced is 0.55 for WAV, 0.50 for MP3, 0.60 for OGG and 0.50 for unknown
C37_BaseRateByFormat ==
  hist.detected.done =>
    hist.detected.baseRate =
      CASE FormatClass(hist.detected.format) = "WAV" -> 550000
        [] FormatClass(hist.detected.format) = "MP3" -> 500000
        [] FormatClass(hist.detected.format) = "OGG" -> 600000
        [] OTHER -> 500000

\* ------------------------------------------------------------------ C38
\* SpecAdaptive: calculateAdaptivePlaybackParams is called once, with the default
\* configuration, on a chunk size of 0 to MaxSizeSteps * SizeStep ms, the sizes next to
\* largeChunkThreshold among them, and a total of 0 to MaxTotalChunks fragments
ChunkSizes ==
  {k * SizeStep : k \in 0..MaxSizeSteps}
    \cup {largeChunkThreshold - 1, largeChunkThreshold, largeChunkThreshold + 1}

InitAdaptive ==
  /\ InitEngine
  /\ \E chunkSizeMs \in ChunkSizes, totalChunks \in 0..MaxTotalChunks :
       hist = [EmptyHist EXCEPT !.adaptive.chunkSizeMs = chunkSizeMs,
                                !.adaptive.totalChunks = totalChunks]

\* calculateAdaptivePlaybackParams(chunkSizeMs, totalChunks) is called
CalculateParams ==
  /\ ~hist.adaptive.done
  /\ LET params == calculateAdaptivePlaybackParams(hist.adaptive.chunkSizeMs,
                                                   hist.adaptive.totalChunks)
     IN Becomes([World EXCEPT !.hist.adaptive =
                   [chunkSizeMs |-> hist.adaptive.chunkSizeMs,
                    totalChunks |-> hist.adaptive.totalChunks, done |-> TRUE,
                    playbackRate |-> params.playbackRate, delay |-> params.delay]])

NextAdaptive == CalculateParams

SpecAdaptive == InitAdaptive /\ [][NextAdaptive]_vars

\* C38: with the default configuration (rate 0.5, delay 10 ms) the calculator returns
\* the rate and the delay of the large (chunkSizeMs >= 2000), short (totalChunks <= 3)
\* and long (totalChunks > 10) adjustments applied in that order with their caps:
\* x1.10 and x0.5, then x1.05 and x0.8, then x0.95 and x1.2 capped at 10 ms; the rate
\* lies in [0.40, 0.70] and the delay in [1, 10] ms
C38_AdjustmentsInOrder ==
  hist.adaptive.done =>
    LET large == hist.adaptive.chunkSizeMs >= 2000
        short == hist.adaptive.totalChunks <= 3
        long  == hist.adaptive.totalChunks > 10
        rate  == hist.adaptive.playbackRate
        delay == hist.adaptive.delay
    IN /\ large /\ short => rate = 577500 /\ delay = 400
       /\ large /\ long => rate = 522500 /\ delay = 600
       /\ large /\ ~short /\ ~long => rate = 550000 /\ delay = 500
       /\ ~large /\ short => rate = 525000 /\ delay = 800
       /\ ~large /\ long => rate = 475000 /\ delay = 1000
       /\ ~large /\ ~short /\ ~long => rate = 500000 /\ delay = 1000
       /\ 400000 <= rate /\ rate <= 700000
       /\ 100 <= delay /\ delay <= 1000

\* reached: the calculator was called for a fragment below the large threshold of a
\* response of more than 10 fragments, and the delay x1.2 was capped at 10 ms
C38_LongDelayCapped ==
  /\ hist.adaptive.done
  /\ hist.adaptive.chunkSizeMs < largeChunkThreshold
  /\ hist.adaptive.totalChunks > longResponse
  /\ hist.adaptive.delay = longDelayMax

\* ------------------------------------------------------------------ C39
\* InterruptionManager.setAISpeaking(isSpeaking)
setAISpeaking(w, isSpeaking) == [w EXCEPT !.interruptionState.isAISpeaking = isSpeaking]

\* InterruptionManager.handleInterruption()
handleInterruption(w) == [w EXCEPT !.interruptionState.isAISpeaking = FALSE]

\* audioService.interrupt as setupAudioServiceIntegration replaces it:
\* handleInterruption(), then the original interrupt()
managedInterrupt(w) ==
  [interrupt(handleInterruption(w)) EXCEPT
     !.hist.stale = 1..w.nSubmits,
     !.hist.cut = UNION {w.sessionAudioSources[k] : k \in SessionKeys}]

\* faulty variant of triggerInterruption: the cooldown is not looked at
triggerInterruptionNoCooldown(w) ==
  IF ~w.interruptionState.isInterruptionEnabled THEN w
  ELSE IF ~w.interruptionState.isAISpeaking THEN w
  ELSE LET w1 == [w EXCEPT !.interruptionState.isUserInterrupting = TRUE,
                           !.interruptionState.lastInterruptionTime = w.now,
                           !.interruptionState.interruptionCount = @ + 1]
           w2 == managedInterrupt(w1)
       IN [w2 EXCEPT !.feedbackTimers = w2.feedbackTimers \cup {w.now + visualFeedbackDuration}]

\* InterruptionManager.triggerInterruption(source)
triggerInterruption(w) ==
  IF ~w.interruptionState.isInterruptionEnabled THEN w
  ELSE IF ~w.interruptionState.isAISpeaking THEN w
  ELSE IF w.now - w.interruptionState.lastInterruptionTime < interruptionCooldown THEN w
  ELSE LET w1 == [w EXCEPT !.interruptionState.isUserInterrupting = TRUE,
                           !.interruptionState.lastInterruptionTime = w.now,
                           !.interruptionState.interruptionCount = @ + 1]
           w2 == managedInterrupt(w1)
       IN [w2 EXCEPT !.feedbackTimers = w2.feedbackTimers \cup {w.now + visualFeedbackDuration}]

\* audioService.playAudioResponse as setupAudioServiceIntegration replaces it; the
\* original has no await after initialize(), so the continuation that lowers
\* isAISpeaking runs before any other task
managedPlayAudioResponse(w, kind, index, total, sessionId) ==
  LET w1 == IF index = 0 THEN setAISpeaking(w, TRUE) ELSE w
      w2 == Delivered(w1, kind, index, total, sessionId)
  IN IF index = total - 1 THEN setAISpeaking(w2, FALSE) ELSE w2

\* SpecManager: an initialised InterruptionManager in front of the engine; fragments of
\* responses of one or two fragments arrive through it, the socket reports the AI
\* thinking, typing or finished, interruptions are enabled and disabled, and
\* triggerInterruption is called at any time; the clock advances by the cooldown or by
\* one millisecond less
SubmitManaged ==
  /\ Quiet /\ isInitialized /\ nSubmits < MaxManagedSubmits
  /\ \E index \in 0..1, total \in 1..2 :
       index < total /\ Becomes(managedPlayAudioResponse(World, "wav", index, total, "s1"))

TriggerInterruption ==
  /\ Quiet
  /\ Becomes(Task(triggerInterruption(World)))

\* socketService: onAIThinking, onAITyping, onAIFinished
SocketEvent ==
  /\ Quiet
  /\ \E isSpeaking \in BOOLEAN : Becomes(Task(setAISpeaking(World, isSpeaking)))

\* InterruptionManager.setInterruptionEnabled(enabled)
SetInterruptionEnabled ==
  /\ Quiet
  /\ \E enabled \in BOOLEAN :
       Becomes(Task([World EXCEPT !.interruptionState.isInterruptionEnabled = enabled]))

\* the visual-feedback timer of triggerInterruption fires
FeedbackTimer ==
  /\ Quiet
  /\ \E d \in feedbackTimers :
       /\ now >= d
       /\ Becomes(Task([World EXCEPT !.feedbackTimers = feedbackTimers \ {d},
                                     !.interruptionState.isUserInterrupting = FALSE]))

Wait ==
  /\ Quiet
  /\ \E k \in {interruptionCooldown - 1, interruptionCooldown} :
       /\ now + k <= T0 + MaxWaits * interruptionCooldown
       /\ Becomes([World EXCEPT !.now = now + k])

NextManager ==
  \/ Initialize
  \/ SubmitManaged
  \/ TriggerInterruption
  \/ SocketEvent
  \/ SetInterruptionEnabled
  \/ FeedbackTimer
  \/ PassMicro
  \/ PassLoop
  \/ PassDecoded
  \/ SourceEnded
  \/ Wait

SpecManager == Init /\ [][NextManager]_vars

\* InterruptionManager: the three conditions of triggerInterruption
MayInterrupt(w) ==
  /\ w.interruptionState.isInterruptionEnabled
  /\ w.interruptionState.isAISpeaking
  /\ w.now - w.interruptionState.lastInterruptionTime >= interruptionCooldown

\* C39: in every reachable state a call of triggerInterruption changes nothing unless
\* interruptions are enabled, the AI is speaking and at least interruptionCooldown ms
\* have passed since lastInterruptionTime, and then it counts the interruption, stamps
\* it and interrupts the engine; and interruptionCount changes in no other way, so an
\* interruption is performed at least interruptionCooldown ms after the previous one
C39_InterruptsOnlyAfterCooldown ==
  /\ [](LET v == triggerInterruption(World)
        IN IF MayInterrupt(World)
           THEN /\ v.interruptionState.interruptionCount = interruptionState.interruptionCount + 1
                /\ v.interruptionState.lastInterruptionTime = now
                /\ v.audioQueue = <<>> /\ ~v.isPlayingSequentially
                /\ getTotalActiveSources(v) = 0
                /\ \A s \in v.sources : s.st # "playing" \/ s.uid \notin hist.cut \cup v.hist.cut
           ELSE v = World)
  /\ [][interruptionState'.interruptionCount # interruptionState.interruptionCount =>
          /\ MayInterrupt(World)
          /\ interruptionState'.interruptionCount = interruptionState.interruptionCount + 1
          /\ interruptionState'.lastInterruptionTime = now
          /\ interruptionState'.lastInterruptionTime - interruptionState.lastInterruptionTime
               >= interruptionCooldown
          /\ audioQueue' = <<>> /\ ~isPlayingSequentially']_vars

\* reached: a second interruption was performed, exactly interruptionCooldown ms after
\* the first, while a source was playing
C39_SecondInterruptionAtCooldown ==
  /\ interruptionState.interruptionCount = 2
  /\ now = interruptionState.lastInterruptionTime
  /\ now = T0 + interruptionCooldown
  /\ \E s \in sources : s.st = "stopped" /\ s.uid \in hist.cut

\* ------------------------------------------------------------------ C40
\* SpecHandles: the fragments 0, 1, ... of one response of MaxHandleSubmits fragments of
\* session "s1" arrive in order before the clock has moved, all with RIFF/WAVE
\* payloads; a source ends by its event or, the event not coming, by its forced-stop
\* timer, and the timers of the engine fire when due
SubmitInOrder ==
  /\ nSubmits < MaxHandleSubmits /\ now = T0
  /\ Deliver("wav", nSubmits, MaxHandleSubmits, "s1")

NextHandles ==
  \/ Initialize
  \/ SubmitInOrder
  \/ PassMicro
  \/ PassLoop
  \/ PassDecoded
  \/ SourceEnded
  \/ SourceTimeout
  \/ PlaybackTimeout
  \/ ForcePlayback
  \/ CleanupTimer
  \/ AwaitDeadline

SpecHandles == Init /\ [][NextHandles]_vars

\* C40: when the render a pass awaits signals completion, by the 'ended' event or by
\* the forced-stop timer, its source is no longer tracked in sessionAudioSources and is
\* not currentAudioSource; and no fragment is skipped by the guard on more than
\* tooManySources active sources
C40_CompletedHandleNotActive ==
  /\ [][\A p \in DOMAIN passes :
          (passes[p].pc = "render" /\ p \in DOMAIN passes' /\ passes'[p].pc = "gap")
            => /\ \A k \in SessionKeys : passes[p].chunk.uid \notin sessionAudioSources'[k]
               /\ currentAudioSource' # passes[p].chunk.uid]_vars
  /\ [](hist.nosource = {})

====
